---- MODULE Spec2Model ----
(***************************************************************************)
(* Task/workflow orchestration engine of the forecasting chatbot.          *)
(* Model of src/agents/orchestrator.py (TaskQueue, ResourceManager,        *)
(* EnhancedAgentOrchestrator) and src/agents/integration.py.               *)
(*                                                                         *)
(* Conventions: task ids are 1..MaxTasks (uuid4 strings in the source),    *)
(* NoneT = 0 stands for Python None where a task id is expected, "none"    *)
(* for a missing agent id / result / error.  Agent loads are kept in       *)
(* halves (0, 1, 2 for 0.0, 0.5, 1.0) and resource amounts are integers.   *)
(* Wall-clock comparisons are nondeterministic choices.                    *)
(***************************************************************************)
EXTENDS Integers, Sequences, FiniteSets, TLC

VARIABLES tasks, queues, waiting_dependencies, completed_tasks,
          agents, allocated_resources, resource_reservations,
          executions, plan, last,
          workflow, step_tasks, drivers, active_workflows,
          execution, execution_driver, bus

vars == <<tasks, queues, waiting_dependencies, completed_tasks,
          agents, allocated_resources, resource_reservations,
          executions, plan, last,
          workflow, step_tasks, drivers, active_workflows,
          execution, execution_driver, bus>>

(* the state of the two workflow managers *)
wfvars == <<workflow, step_tasks, drivers, active_workflows,
            execution, execution_driver>>

(* the state of the orchestrator *)
orchvars == <<tasks, queues, waiting_dependencies, completed_tasks,
              agents, allocated_resources, resource_reservations,
              executions, plan>>

(***************************************************************************)
(* Bounds of the model.                                                    *)
(***************************************************************************)
MaxTasks == 3

MaxCreate == 2

MaxRetriesBound == 1

(* messages created in one run of the message bus *)
MaxMessages == 3

(* the clock of the message bus runs from 1 to MaxClock *)
MaxClock == 2

(* orchestrators built on the one message bus *)
MaxInstances == 2

(* messages the message-processing loop may create beyond MaxMessages *)
MaxDerived == 2

(* stands for max_history_size, the number of messages the history keeps *)
MaxHistory == 1

TaskIds == 1..MaxTasks

NoneT == 0

(***************************************************************************)
(* Enumerations.                                                           *)
(***************************************************************************)
LOW == 1

NORMAL == 2

HIGH == 3

CRITICAL == 4

TaskPriority == {LOW, NORMAL, HIGH, CRITICAL}

(* mutant: buckets scanned lowest priority first *)
PriorityScan_ascending == <<LOW, NORMAL, HIGH, CRITICAL>>

PriorityScan == <<CRITICAL, HIGH, NORMAL, LOW>>

AgentType == {"data_analyst", "preprocessing"}

NoFilter == "any"

AgentIds == {"data_analyst_001", "preprocessing_001"}

AgentOrder == <<"data_analyst_001", "preprocessing_001">>

NoneA == "none"

AgentTypeOf == [a \in AgentIds |-> IF a = "data_analyst_001" THEN "data_analyst" ELSE "preprocessing"]

(* a capability name each agent declares (one of the four it declares)     *)
Capabilities == [a \in AgentIds |-> IF a = "data_analyst_001" THEN {"pattern_detection"} ELSE {"data_cleaning"}]

ResourceTypes == {"cpu", "memory", "network", "storage"}

ResourceKeys == ResourceTypes \cup {"gpu"}

available_resources == [r \in ResourceKeys |-> IF r \in ResourceTypes THEN 100 ELSE 0]

Req(r, n) == [resource_type |-> r, amount |-> n]

ReqLists == { <<>>, <<Req("cpu", 60)>>, <<Req("cpu", 50)>>,
              <<Req("cpu", 60), Req("memory", 50)>>, <<Req("gpu", 10)>>,
              <<Req("cpu", 60), Req("cpu", 60)>> }

(***************************************************************************)
(* Records.                                                                *)
(***************************************************************************)
NoTask == [status |-> "none", priority |-> NORMAL, agent_type |-> "data_analyst",
           type |-> "pattern_detection", dependencies |-> {},
           assigned_agent |-> NoneA, retry_count |-> 0, max_retries |-> 0,
           resource_requirements |-> <<>>, result |-> "none", error |-> "none"]

Task(p, at, ty, deps, mr, reqs) ==
    [status |-> "pending", priority |-> p, agent_type |-> at, type |-> ty,
     dependencies |-> deps, assigned_agent |-> NoneA, retry_count |-> 0,
     max_retries |-> mr, resource_requirements |-> reqs,
     result |-> "none", error |-> "none"]

(* registered: the id is a key of self.agents *)
Agent(a) == [type |-> AgentTypeOf[a], status |-> "idle", current_load |-> 0,
             health_status |-> "healthy", registered |-> TRUE]

NoExec == [pc |-> "none", agent |-> NoneA, via |-> "none"]

NoLast == [op |-> "init", task |-> NoneT, agent |-> NoneA, filter |-> NoFilter,
           ret |-> FALSE, reqs |-> <<>>, refused |-> {}, raised |-> FALSE]

Other == [NoLast EXCEPT !.op = "other"]

(***************************************************************************)
(* The whole program state as one record, so that the methods below can be  *)
(* written as functions from state to state and composed as the code       *)
(* composes them.                                                          *)
(***************************************************************************)
St == [tasks |-> tasks, queues |-> queues,
       waiting_dependencies |-> waiting_dependencies,
       completed_tasks |-> completed_tasks, agents |-> agents,
       allocated_resources |-> allocated_resources,
       resource_reservations |-> resource_reservations,
       executions |-> executions]

Commit(S) ==
    /\ tasks' = S.tasks
    /\ queues' = S.queues
    /\ waiting_dependencies' = S.waiting_dependencies
    /\ completed_tasks' = S.completed_tasks
    /\ agents' = S.agents
    /\ allocated_resources' = S.allocated_resources
    /\ resource_reservations' = S.resource_reservations
    /\ executions' = S.executions
    /\ UNCHANGED wfvars
    /\ UNCHANGED bus

Range(s) == {s[i] : i \in 1..Len(s)}

RemoveAt(s, i) == SubSeq(s, 1, i - 1) \o SubSeq(s, i + 1, Len(s))

(***************************************************************************)
(* TaskQueue                                                               *)
(***************************************************************************)
(* mutant: a dependency counts as met as soon as its task exists *)
dependencies_met_known(S, t) == \A dep_id \in S.tasks[t].dependencies : S.tasks[dep_id].status # "none"

dependencies_met(S, t) == \A dep_id \in S.tasks[t].dependencies : dep_id \in S.completed_tasks

add_task(S, t) ==
    IF dependencies_met(S, t)
    THEN [S EXCEPT !.queues[S.tasks[t].priority] = Append(@, t)]
    ELSE [S EXCEPT !.waiting_dependencies =
                        IF t \in Range(@) THEN @ ELSE Append(@, t),
                   !.tasks[t].status = "waiting_dependencies"]

Matches(S, t, agent_type) == agent_type = NoFilter \/ S.tasks[t].agent_type = agent_type

(* mutant: the last task of the bucket that passes the filter *)
FirstMatch_last(S, queue, agent_type) ==
    LET hits == {i \in 1..Len(queue) : Matches(S, queue[i], agent_type)}
    IN IF hits = {} THEN 0 ELSE CHOOSE i \in hits : \A j \in hits : i >= j

(* index of the first task of the bucket that passes the filter, 0 if none *)
FirstMatch(S, queue, agent_type) ==
    LET hits == {i \in 1..Len(queue) : Matches(S, queue[i], agent_type)}
    IN IF hits = {} THEN 0 ELSE CHOOSE i \in hits : \A j \in hits : i <= j

(* deque.remove(x): removes the first element equal to x *)
DequeRemove(queue, x) ==
    LET i == CHOOSE k \in 1..Len(queue) : queue[k] = x /\ \A j \in 1..(k - 1) : queue[j] # x
    IN RemoveAt(queue, i)

RECURSIVE ScanBuckets(_, _, _)
ScanBuckets(S, agent_type, k) ==
    IF k > Len(PriorityScan) THEN [task |-> NoneT, S |-> S]
    ELSE LET priority == PriorityScan[k]
             queue == S.queues[priority]
             i == FirstMatch(S, queue, agent_type)
         IN IF i = 0 THEN ScanBuckets(S, agent_type, k + 1)
            ELSE [task |-> queue[i],
                  S |-> [S EXCEPT !.queues[priority] =
                                      IF i = 1 THEN Tail(queue)
                                      ELSE DequeRemove(queue, queue[i])]]

get_next_task(S, agent_type) == ScanBuckets(S, agent_type, 1)

RECURSIVE ReleaseReady(_, _)
ReleaseReady(S, ready) ==
    IF ready = <<>> THEN S
    ELSE LET t == Head(ready)
         IN ReleaseReady([S EXCEPT !.tasks[t].status = "pending",
                                   !.queues[S.tasks[t].priority] = Append(@, t)],
                         Tail(ready))

(* mutant: every waiting task is released *)
mark_task_completed_all(S, task_id) ==
    LET S1 == [S EXCEPT !.completed_tasks = @ \cup {task_id}]
    IN ReleaseReady([S1 EXCEPT !.waiting_dependencies = <<>>], S1.waiting_dependencies)

mark_task_completed(S, task_id) ==
    LET S1 == [S EXCEPT !.completed_tasks = @ \cup {task_id}]
        ready == SelectSeq(S1.waiting_dependencies, LAMBDA w : dependencies_met(S1, w))
        S2 == [S1 EXCEPT !.waiting_dependencies =
                             SelectSeq(@, LAMBDA w : ~dependencies_met(S1, w))]
    IN ReleaseReady(S2, ready)

(***************************************************************************)
(* ResourceManager                                                         *)
(***************************************************************************)
(* mutant: an exact fit is refused *)
can_allocate_strict(S, requirements) ==
    \A i \in 1..Len(requirements) :
        LET req == requirements[i]
        IN ~((available_resources[req.resource_type]
                - S.allocated_resources[req.resource_type]) <= req.amount)

can_allocate(S, requirements) ==
    \A i \in 1..Len(requirements) :
        LET req == requirements[i]
        IN ~((available_resources[req.resource_type]
                - S.allocated_resources[req.resource_type]) < req.amount)

RECURSIVE AddAll(_, _, _)
AddAll(alloc, requirements, sign) ==
    IF requirements = <<>> THEN alloc
    ELSE LET req == Head(requirements)
         IN AddAll([alloc EXCEPT ![req.resource_type] = @ + sign * req.amount],
                   Tail(requirements), sign)

NoReservation == <<[resource_type |-> "none", amount |-> 0]>>

allocate_resources(S, task_id, requirements) ==
    IF ~can_allocate(S, requirements) THEN [ok |-> FALSE, S |-> S]
    ELSE [ok |-> TRUE,
          S |-> [S EXCEPT !.allocated_resources = AddAll(@, requirements, 1),
                          !.resource_reservations[task_id] = requirements]]

(* mutant: the reservation is not deleted *)
release_resources_keep(S, task_id) ==
    IF S.resource_reservations[task_id] # NoReservation
    THEN [S EXCEPT !.allocated_resources = AddAll(@, S.resource_reservations[task_id], -1)]
    ELSE S

release_resources(S, task_id) ==
    IF S.resource_reservations[task_id] # NoReservation
    THEN [S EXCEPT !.allocated_resources = AddAll(@, S.resource_reservations[task_id], -1),
                   !.resource_reservations[task_id] = NoReservation]
    ELSE S

(***************************************************************************)
(* Workflow, WorkflowStep (enhanced_chatbot/agents/workflow_manager.py).    *)
(* One workflow is followed.  A step is named by its position in the step  *)
(* list; NoneD = 0 stands for "no driver registered in active_workflows".  *)
(***************************************************************************)
MaxSteps == 3

MaxDrivers == 2

StepIds == 1..MaxSteps

DriverIds == 1..MaxDrivers

NoneD == 0

WorkflowStep(deps, mr, af) ==
    [dependencies |-> deps, status |-> "pending", retry_count |-> 0,
     max_retries |-> mr, allow_failure |-> af, task_id |-> NoneT]

(* a float that is a quotient of two integers, kept exact *)
Ratio(n, d) == [num |-> n, den |-> d]

RatioEq(a, b) == a.num * b.den = b.num * a.den

NoWorkflow ==
    [status |-> "none", error |-> "none", current_step_index |-> 0, steps |-> <<>>,
     progress |-> Ratio(0, 1)]

NoDriver == [pc |-> "none", step |-> 0, via |-> "none"]

(* WorkflowExecution and the steps of its plan (workflow_manager.py) *)
PlanStep(step_id, deps) == [step_id |-> step_id, dependencies |-> deps, status |-> "pending"]

(* user_approvals[i] is user_approvals.get(i, False); rejected holds the   *)
(* keys of the dictionary whose value is False                             *)
NoExecution ==
    [status |-> "none", current_step |-> 0, completed_steps |-> <<>>,
     failed_steps |-> <<>>, steps |-> <<>>, auto_approve |-> FALSE,
     user_approvals |-> [i \in StepIds |-> FALSE], rejected |-> {}]

(***************************************************************************)
(* MessageBus and AgentMessage of communication.py.  A message object is   *)
(* known by its id; messages is the table of the objects created so far.   *)
(***************************************************************************)
(* callers create MaxMessages messages at most; MaxDerived more ids are    *)
(* left for the messages the message-processing loop creates itself       *)
MsgIds == 1..(MaxMessages + MaxDerived)

NoneM == 0

BusIds == {"agent_a", "agent_b", "orchestrator"}

(* the agents every orchestrator registers *)
DefaultAgents == <<"agent_a", "agent_b">>

NoRecipient == "none"

MessageType == {"status_update", "heartbeat", "task_response", "error_report"}

(* expires_at = None *)
NoExpiry == 0

AgentMessage(id, sender_id, recipient_id, message_type, timestamp, expires_at, correlation_id) ==
    [id |-> id, sender_id |-> sender_id, recipient_id |-> recipient_id,
     message_type |-> message_type, timestamp |-> timestamp,
     expires_at |-> expires_at, correlation_id |-> correlation_id]

NoMessage == AgentMessage(NoneM, "none", NoRecipient, "none", 0, NoExpiry, NoneM)

(* what the last call on the bus returned *)
NoRet == [op |-> "none", agent |-> "none", ok |-> TRUE, raised |-> FALSE,
          messages |-> <<>>, correlation_id |-> NoneM, limit |-> 0,
          timeout_seconds |-> 0, expired |-> {}]

(* where the _message_processing_loop of one orchestrator stands: idle     *)
(* between two passes, or suspended in the sleep of _default_error_recovery *)
(* with the rest of the pass still to do                                   *)
NoLoop == [pc |-> "idle", agent_id |-> "none", messages |-> <<>>, agent_ids |-> <<>>,
           subject |-> "none", correlation_id |-> NoneM]

(* keys is the key set of message_queues; returned remembers, per agent,   *)
(* the messages get_messages has handed out                                *)
NoBus ==
    [messages |-> [m \in MsgIds |-> NoMessage],
     keys |-> {},
     message_queues |-> [a \in BusIds |-> <<>>],
     subscribers |-> [mt \in MessageType |-> <<>>],
     pending_responses |-> {},
     message_history |-> <<>>,
     now |-> 1,
     returned |-> [a \in BusIds |-> {}],
     loops |-> [i \in 1..MaxInstances |-> NoLoop],
     ret |-> NoRet]

(***************************************************************************)
(* Initial state: a freshly constructed orchestrator.                      *)
(***************************************************************************)
Init ==
    /\ tasks = [t \in TaskIds |-> NoTask]
    /\ queues = [p \in TaskPriority |-> <<>>]
    /\ waiting_dependencies = <<>>
    /\ completed_tasks = {}
    /\ agents = [a \in AgentIds |-> Agent(a)]
    /\ allocated_resources = [r \in ResourceKeys |-> 0]
    /\ resource_reservations = [t \in TaskIds |-> NoReservation]
    /\ executions = [t \in TaskIds |-> NoExec]
    /\ plan = [t \in TaskIds |-> 0]
    /\ last = NoLast
    /\ workflow = NoWorkflow
    /\ step_tasks = [i \in StepIds |-> "none"]
    /\ drivers = [d \in DriverIds |-> NoDriver]
    /\ active_workflows = NoneD
    /\ execution = NoExecution
    /\ execution_driver = NoDriver
    /\ bus = NoBus

(***************************************************************************)
(* SpecTQ: the TaskQueue driven directly by a caller.                      *)
(***************************************************************************)
InQueues(S, t) == \E p \in TaskPriority : t \in Range(S.queues[p])

Held(S, t) ==
    /\ S.tasks[t].status # "none"
    /\ ~InQueues(S, t)
    /\ t \notin Range(S.waiting_dependencies)
    /\ t \notin S.completed_tasks

(* dependency ids are ids of tasks created earlier (ids are fresh uuids) *)
DepChoices(t) == SUBSET (1..(t - 1))

NextId == IF \E t \in TaskIds : tasks[t].status = "none"
          THEN CHOOSE t \in TaskIds : tasks[t].status = "none" /\ \A u \in TaskIds : u < t => tasks[u].status # "none"
          ELSE NoneT

TQAddTask ==
    /\ NextId # NoneT
    /\ \E p \in TaskPriority, at \in AgentType, deps \in DepChoices(NextId) :
         LET t == NextId
             S0 == [St EXCEPT !.tasks[t] = Task(p, at, "pattern_detection", deps, 0, <<>>)]
         IN /\ Commit(add_task(S0, t))
            /\ last' = [NoLast EXCEPT !.op = "add_task", !.task = t]
    /\ UNCHANGED plan

TQReAddTask ==
    /\ \E t \in TaskIds :
         /\ Held(St, t)
         /\ Commit(add_task(St, t))
         /\ last' = [NoLast EXCEPT !.op = "re_add_task", !.task = t]
    /\ UNCHANGED plan

TQGetNextTask ==
    /\ \E f \in AgentType \cup {NoFilter} :
         LET r == get_next_task(St, f)
         IN /\ Commit(r.S)
            /\ last' = [NoLast EXCEPT !.op = "get_next_task", !.task = r.task, !.filter = f]
    /\ UNCHANGED plan

TQMarkTaskCompleted ==
    /\ \E t \in TaskIds :
         /\ Held(St, t)
         /\ Commit(mark_task_completed(St, t))
         /\ last' = [NoLast EXCEPT !.op = "mark_task_completed", !.task = t]
    /\ UNCHANGED plan

NextTQ == TQAddTask \/ TQReAddTask \/ TQGetNextTask \/ TQMarkTaskCompleted

SpecTQ == Init /\ [][NextTQ]_vars

(***************************************************************************)
(* SpecRM: the ResourceManager driven directly by a caller.                *)
(***************************************************************************)
RMAllocate ==
    /\ \E t \in TaskIds, reqs \in ReqLists :
         LET r == allocate_resources(St, t, reqs)
         IN /\ Commit(r.S)
            /\ last' = [NoLast EXCEPT !.op = "allocate_resources", !.task = t,
                                      !.reqs = reqs, !.ret = r.ok]
    /\ UNCHANGED plan

RMRelease ==
    /\ \E t \in TaskIds :
         /\ Commit(release_resources(St, t))
         /\ last' = [NoLast EXCEPT !.op = "release_resources", !.task = t,
                                   !.ret = (resource_reservations[t] # NoReservation)]
    /\ UNCHANGED plan

NextRM == RMAllocate \/ RMRelease

SpecRM == Init /\ [][NextRM]_vars

(***************************************************************************)
(* EnhancedAgentOrchestrator                                               *)
(***************************************************************************)
(* mutant: health is not looked at *)
is_available_any_health(ag) ==
    /\ ag.status = "idle"
    /\ ag.current_load < 2

is_available(ag) ==
    /\ ag.status = "idle"
    /\ ag.current_load < 2
    /\ ag.health_status = "healthy"

can_handle_task(a, task_type) == task_type \in Capabilities[a]

(* get_agent(agent_id) finds an agent *)
get_agent(S, a) == S.agents[a].registered

(* get_available_agents(task.agent_type) filtered by can_handle_task, then  *)
(* min by (current_load, -success_rate); there is one agent per class, so   *)
(* the key never has to break a tie.                                       *)
SuitableAgents(S, t) ==
    {a \in AgentIds : /\ get_agent(S, a)
                      /\ is_available(S.agents[a])
                      /\ S.agents[a].type = S.tasks[t].agent_type
                      /\ can_handle_task(a, S.tasks[t].type)}

BestAgent(S, t) ==
    CHOOSE a \in SuitableAgents(S, t) :
        \A b \in SuitableAgents(S, t) : S.agents[a].current_load <= S.agents[b].current_load

Min(x, y) == IF x < y THEN x ELSE y

Max(x, y) == IF x > y THEN x ELSE y

Refuse(S, why) == [ok |-> FALSE, S |-> S, why |-> why]

assign_task(S, task_id, agent_id) ==
    IF task_id \notin TaskIds \/ S.tasks[task_id].status # "pending"
    THEN Refuse(S, "task")
    ELSE IF agent_id = NoneA /\ SuitableAgents(S, task_id) = {}
    THEN Refuse(S, "agent")
    ELSE LET a == IF agent_id = NoneA THEN BestAgent(S, task_id) ELSE agent_id
             task == S.tasks[task_id]
         IN IF ~get_agent(S, a) \/ ~is_available(S.agents[a])
            THEN Refuse(S, "agent")
            ELSE IF task.resource_requirements # <<>>
                    /\ ~can_allocate(S, task.resource_requirements)
            THEN Refuse(S, "resources")
            ELSE LET S1 == IF task.resource_requirements # <<>>
                           THEN allocate_resources(S, task_id, task.resource_requirements).S
                           ELSE S
                 IN [ok |-> TRUE, why |-> "ok",
                     S |-> [S1 EXCEPT !.tasks[task_id].assigned_agent = a,
                                      !.tasks[task_id].status = "assigned",
                                      !.agents[a].status = "busy",
                                      !.agents[a].current_load = Min(2, @ + 1)]]

(* asyncio.create_task(self._execute_task_async(task_id)) *)
Spawn(S, t) == [S EXCEPT !.executions[t] = [pc |-> "spawned", agent |-> NoneA, via |-> "orchestrator"]]

RECURSIVE ScheduleLoop(_, _, _)
ScheduleLoop(S, available_agents, refused) ==
    IF available_agents = <<>> THEN [S |-> S, refused |-> refused]
    ELSE LET a == Head(available_agents)
             r == get_next_task(S, S.agents[a].type)
         IN IF r.task = NoneT
            THEN ScheduleLoop(S, Tail(available_agents), refused)
            ELSE LET g == assign_task(r.S, r.task, a)
                 IN IF g.ok
                    THEN ScheduleLoop(Spawn(g.S, r.task), Tail(available_agents), refused)
                    ELSE ScheduleLoop(g.S, Tail(available_agents),
                                      IF g.why = "resources" THEN refused \cup {r.task}
                                      ELSE refused)

schedule_pending_tasks(S) ==
    ScheduleLoop(S, SelectSeq(AgentOrder,
                              LAMBDA a : get_agent(S, a) /\ is_available(S.agents[a])), {})

(* the finally clause of _execute_task_async *)
Finally(S, a) ==
    IF S.agents[a].status \notin {"error", "paused"}
    THEN [S EXCEPT !.agents[a].status = "idle"]
    ELSE S

SuccessPath(S, t, a) ==
    LET S1 == [S EXCEPT !.tasks[t].status = "completed",
                        !.tasks[t].result = "ok",
                        !.agents[a].status = "completed",
                        !.agents[a].current_load = Max(0, @ - 1)]
        S2 == IF S1.tasks[t].resource_requirements # <<>>
              THEN release_resources(S1, t) ELSE S1
        S3 == mark_task_completed(S2, t)
    IN Finally([S3 EXCEPT !.executions[t] = NoExec], a)

(* mutant: <= for < *)
can_retry_once_more(task) == task.retry_count <= task.max_retries

can_retry(task) == task.retry_count < task.max_retries

(* mutant: the failure path forgets to release the task's resources *)
FailurePath_no_release(S, t, a) ==
    LET S1 == [S EXCEPT !.tasks[t].status = "failed",
                        !.tasks[t].error = "error",
                        !.agents[a].status = "error",
                        !.agents[a].current_load = Max(0, @ - 1)]
        S3 == IF S1.tasks[t].retry_count < S1.tasks[t].max_retries
              THEN add_task([S1 EXCEPT !.tasks[t].retry_count = @ + 1,
                                       !.tasks[t].status = "pending",
                                       !.tasks[t].assigned_agent = NoneA], t)
              ELSE S1
    IN Finally([S3 EXCEPT !.executions[t] = NoExec], a)

FailurePath(S, t, a) ==
    LET S1 == [S EXCEPT !.tasks[t].status = "failed",
                        !.tasks[t].error = "error",
                        !.agents[a].status = "error",
                        !.agents[a].current_load = Max(0, @ - 1)]
        S2 == IF S1.tasks[t].resource_requirements # <<>>
              THEN release_resources(S1, t) ELSE S1
        S3 == IF can_retry(S2.tasks[t])
              THEN add_task([S2 EXCEPT !.tasks[t].retry_count = @ + 1,
                                       !.tasks[t].status = "pending",
                                       !.tasks[t].assigned_agent = NoneA], t)
              ELSE S2
    IN Finally([S3 EXCEPT !.executions[t] = NoExec], a)

(* _execute_task_async up to its first suspension (await execute_capability) *)
ExecuteStart(S, t) ==
    IF S.tasks[t].status = "none" \/ S.tasks[t].assigned_agent = NoneA
    THEN [S EXCEPT !.executions[t] = NoExec]
    ELSE IF ~get_agent(S, S.tasks[t].assigned_agent)
    THEN [S EXCEPT !.executions[t] = NoExec]
    ELSE LET a == S.tasks[t].assigned_agent
             S1 == [S EXCEPT !.tasks[t].status = "running"]
         IN IF ~can_handle_task(a, S.tasks[t].type)
            THEN FailurePath(S1, t, a)
            ELSE [S1 EXCEPT !.executions[t] = [pc |-> "running", agent |-> a, via |-> "orchestrator"]]

(***************************************************************************)
(* Actions of the orchestrator.                                            *)
(***************************************************************************)
(* the tasks a caller submits: create_task arguments, plus the fields        *)
(* max_retries and resource_requirements set on the Task it returns        *)
TaskTemplates ==
    { Task(NORMAL, "data_analyst", "pattern_detection", {}, MaxRetriesBound, <<Req("cpu", 60)>>),
      Task(NORMAL, "preprocessing", "data_cleaning", {}, MaxRetriesBound, <<Req("cpu", 60)>>),
      Task(HIGH, "data_analyst", "pattern_detection", {}, 0, <<>>),
      Task(NORMAL, "preprocessing", "data_cleaning", {1}, 0, <<>>) }

CreateTask ==
    /\ NextId # NoneT
    /\ NextId <= MaxCreate
    /\ \E task \in TaskTemplates :
         LET t == NextId
             S0 == [St EXCEPT !.tasks[t] = task]
         IN /\ task.dependencies \in DepChoices(t)
            /\ Commit(add_task(S0, t))
            /\ last' = Other
    /\ UNCHANGED plan

SchedulePendingTasks ==
    /\ \E r \in {schedule_pending_tasks(St)} :
         /\ Commit(r.S)
         /\ last' = [NoLast EXCEPT !.op = "schedule_pending_tasks", !.refused = r.refused]
    /\ UNCHANGED plan

AssignTaskCall ==
    /\ \E t \in TaskIds, a \in AgentIds \cup {NoneA} :
         LET g == assign_task(St, t, a)
         IN /\ Commit(IF g.ok THEN Spawn(g.S, t) ELSE g.S)
            /\ last' = [NoLast EXCEPT !.op = "assign_task", !.ret = g.ok]
    /\ UNCHANGED plan

ExecStart ==
    /\ \E t \in TaskIds :
         /\ executions[t].pc = "spawned"
         /\ executions[t].via = "orchestrator"
         /\ Commit(ExecuteStart(St, t))
         /\ last' = Other
    /\ UNCHANGED plan

ExecSucceed ==
    /\ \E t \in TaskIds :
         /\ executions[t].pc = "running"
         /\ executions[t].via = "orchestrator"
         /\ Commit(SuccessPath(St, t, executions[t].agent))
         /\ last' = Other
    /\ UNCHANGED plan

ExecFail ==
    /\ \E t \in TaskIds :
         /\ executions[t].pc = "running"
         /\ executions[t].via = "orchestrator"
         /\ Commit(FailurePath(St, t, executions[t].agent))
         /\ last' = Other
    /\ UNCHANGED plan

pause_agent(S, a) ==
    IF get_agent(S, a) /\ S.agents[a].status = "busy"
    THEN [S EXCEPT !.agents[a].status = "paused"] ELSE S

resume_agent(S, a) ==
    IF get_agent(S, a) /\ S.agents[a].status = "paused"
    THEN [S EXCEPT !.agents[a].status = "busy"] ELSE S

reset_agent(S, a) ==
    IF get_agent(S, a)
    THEN [S EXCEPT !.agents[a] = [@ EXCEPT !.status = "idle", !.current_load = 0,
                                           !.health_status = "healthy"]]
    ELSE S

(* _perform_health_checks; stale is the set of agents whose last activity   *)
(* is more than ten minutes old.                                           *)
perform_health_checks(S, stale) ==
    [S EXCEPT !.agents = [a \in AgentIds |->
        LET ag == S.agents[a]
            ag1 == IF ag.status = "busy" /\ a \in stale
                   THEN [ag EXCEPT !.health_status = "unresponsive"] ELSE ag
        IN IF ~ag.registered THEN ag
           ELSE IF ag1.health_status # "healthy" /\ ag1.status = "idle"
           THEN [ag1 EXCEPT !.health_status = "healthy"] ELSE ag1]]

PauseAgent ==
    /\ \E a \in AgentIds : Commit(pause_agent(St, a))
    /\ last' = Other
    /\ UNCHANGED plan

ResumeAgent ==
    /\ \E a \in AgentIds : Commit(resume_agent(St, a))
    /\ last' = Other
    /\ UNCHANGED plan

ResetAgent ==
    /\ \E a \in AgentIds : Commit(reset_agent(St, a))
    /\ last' = Other
    /\ UNCHANGED plan

HealthCheck ==
    /\ \E stale \in SUBSET AgentIds : Commit(perform_health_checks(St, stale))
    /\ last' = Other
    /\ UNCHANGED plan

(* mutant: a busy agent is removed like any other *)
remove_agent_busy(S, a) ==
    IF get_agent(S, a)
    THEN [ok |-> TRUE, S |-> [S EXCEPT !.agents[a].registered = FALSE]]
    ELSE [ok |-> FALSE, S |-> S]

(* del self.agents[agent_id]: the Agent object lives on in the executions *)
(* that hold it                                                            *)
remove_agent(S, a) ==
    IF get_agent(S, a)
    THEN IF S.agents[a].status = "busy"
         THEN [ok |-> FALSE, S |-> S]
         ELSE [ok |-> TRUE, S |-> [S EXCEPT !.agents[a].registered = FALSE]]
    ELSE [ok |-> FALSE, S |-> S]

RemoveAgent ==
    /\ \E a \in AgentIds :
         LET r == remove_agent(St, a)
         IN /\ Commit(r.S)
            /\ last' = [NoLast EXCEPT !.op = "remove_agent", !.agent = a, !.ret = r.ok]
    /\ UNCHANGED plan

Next ==
    \/ CreateTask
    \/ SchedulePendingTasks
    \/ AssignTaskCall
    \/ ExecStart
    \/ ExecSucceed
    \/ ExecFail
    \/ PauseAgent
    \/ ResumeAgent
    \/ ResetAgent
    \/ HealthCheck

Spec == Init /\ [][Next]_vars

(***************************************************************************)
(* The orchestrator with remove_agent among its calls.                     *)
(***************************************************************************)
NextRemove ==
    \/ CreateTask
    \/ SchedulePendingTasks
    \/ ExecStart
    \/ ExecSucceed
    \/ ExecFail
    \/ PauseAgent
    \/ ResumeAgent
    \/ RemoveAgent

SpecRemove == Init /\ [][NextRemove]_vars

(***************************************************************************)
(* SpecExt: the orchestrator together with callers that run an execution   *)
(* for a task id themselves: api/chat_orchestrator.py creates              *)
(* _execute_task_async(task_id) directly, and AgentIntegrationManager      *)
(* offers execute_agent_task(task_id).  A caller starts an execution for a  *)
(* task id only when no execution of that task is in flight.  Agents are    *)
(* managed through reset_agent only.                                       *)
(***************************************************************************)
ExecuteCall ==
    /\ \E t \in TaskIds :
         /\ executions[t].pc = "none"
         /\ Commit(Spawn(St, t))
         /\ last' = Other
    /\ UNCHANGED plan

(* agent.status.COMPLETED / .ERROR read through an enum member: whether the  *)
(* member exposes its siblings depends on the Python version, so the       *)
(* status is either changed or left alone.                                 *)
IntegrationSuccess(S, t, a, sibling) ==
    [S EXCEPT !.tasks[t].status = "completed",
              !.tasks[t].result = "ok",
              !.agents[a].status = IF sibling THEN "completed" ELSE @,
              !.executions[t] = NoExec]

IntegrationFailure(S, t, a, sibling) ==
    [S EXCEPT !.tasks[t].status = "failed",
              !.tasks[t].error = "error",
              !.agents[a].status = IF sibling THEN "error" ELSE @,
              !.executions[t] = NoExec]

(* execute_agent_task up to its first suspension *)
execute_agent_task(S, t, sibling) ==
    IF S.tasks[t].status = "none" \/ S.tasks[t].assigned_agent = NoneA
    THEN S
    ELSE LET a == S.tasks[t].assigned_agent
             S1 == [S EXCEPT !.tasks[t].status = "running"]
         IN IF ~can_handle_task(a, S.tasks[t].type)
            THEN IntegrationFailure(S1, t, a, sibling)
            ELSE [S1 EXCEPT !.executions[t] = [pc |-> "running", agent |-> a, via |-> "integration"]]

ExecuteAgentTask ==
    /\ \E t \in TaskIds, sibling \in BOOLEAN :
         /\ executions[t].pc = "none"
         /\ Commit(execute_agent_task(St, t, sibling))
         /\ last' = Other
    /\ UNCHANGED plan

IntegrationSucceed ==
    /\ \E t \in TaskIds, sibling \in BOOLEAN :
         /\ executions[t].pc = "running"
         /\ executions[t].via = "integration"
         /\ Commit(IntegrationSuccess(St, t, executions[t].agent, sibling))
         /\ last' = Other
    /\ UNCHANGED plan

IntegrationFail ==
    /\ \E t \in TaskIds, sibling \in BOOLEAN :
         /\ executions[t].pc = "running"
         /\ executions[t].via = "integration"
         /\ Commit(IntegrationFailure(St, t, executions[t].agent, sibling))
         /\ last' = Other
    /\ UNCHANGED plan

NextExt ==
    \/ CreateTask
    \/ SchedulePendingTasks
    \/ ExecStart
    \/ ExecSucceed
    \/ ExecFail
    \/ ResetAgent
    \/ ExecuteCall
    \/ ExecuteAgentTask
    \/ IntegrationSucceed
    \/ IntegrationFail

SpecExt == Init /\ [][NextExt]_vars

(***************************************************************************)
(* LiveSpec: the background loops alone.  The scheduler loop and the       *)
(* health-check loop run forever and every started execution ends; plan[t]  *)
(* is the number of attempts of task t whose payload fails before one      *)
(* succeeds.                                                               *)
(***************************************************************************)
LiveTemplates ==
    { Task(NORMAL, "data_analyst", "pattern_detection", {}, 2, <<>>),
      Task(HIGH, "preprocessing", "data_cleaning", {}, 2, <<>>),
      Task(NORMAL, "preprocessing", "data_cleaning", {}, 0, <<>>) }

CreateTaskL ==
    /\ NextId # NoneT
    /\ \E task \in LiveTemplates, fails \in {0, 2} :
         LET t == NextId
             S0 == [St EXCEPT !.tasks[t] = task]
         IN /\ Commit(add_task(S0, t))
            /\ plan' = [plan EXCEPT ![t] = fails]
            /\ last' = Other

ExecSucceedL ==
    /\ \E t \in TaskIds :
         /\ executions[t].pc = "running"
         /\ tasks[t].retry_count >= plan[t]
         /\ Commit(SuccessPath(St, t, executions[t].agent))
         /\ last' = Other
    /\ UNCHANGED plan

ExecFailL ==
    /\ \E t \in TaskIds :
         /\ executions[t].pc = "running"
         /\ tasks[t].retry_count < plan[t]
         /\ Commit(FailurePath(St, t, executions[t].agent))
         /\ last' = Other
    /\ UNCHANGED plan

NextLive ==
    \/ CreateTaskL
    \/ SchedulePendingTasks
    \/ ExecStart
    \/ ExecSucceedL
    \/ ExecFailL
    \/ HealthCheck

LiveSpec ==
    /\ Init
    /\ [][NextLive]_vars
    /\ WF_vars(SchedulePendingTasks)
    /\ WF_vars(ExecStart)
    /\ WF_vars(ExecSucceedL)
    /\ WF_vars(ExecFailL)
    /\ WF_vars(HealthCheck)

(***************************************************************************)
(* SpecCancel: the scheduler core together with cancel_task.  The          *)
(* orchestrator class has no cancel_task method although the API layer and  *)
(* the workflow manager call one; it is modelled here from the             *)
(* specification: a task that is Assigned or Running is marked Cancelled   *)
(* and its resources and its agent's load are released at once, while the   *)
(* execution already started goes on and ends later.                       *)
(***************************************************************************)
cancel_task(S, task_id) ==
    IF S.tasks[task_id].status \notin {"assigned", "running"}
    THEN [ok |-> FALSE, S |-> S]
    ELSE LET a == S.tasks[task_id].assigned_agent
             S1 == [S EXCEPT !.tasks[task_id].status = "cancelled",
                             !.agents[a].current_load = Max(0, @ - 1)]
         IN [ok |-> TRUE, S |-> release_resources(S1, task_id)]

CancelTask ==
    /\ \E t \in TaskIds :
         LET r == cancel_task(St, t)
         IN /\ Commit(r.S)
            /\ last' = [NoLast EXCEPT !.op = "cancel_task", !.task = t, !.ret = r.ok]
    /\ UNCHANGED plan

NextCancel ==
    \/ CreateTask
    \/ SchedulePendingTasks
    \/ ExecStart
    \/ ExecSucceed
    \/ ExecFail
    \/ CancelTask

SpecCancel == Init /\ [][NextCancel]_vars

(***************************************************************************)
(* WorkflowManager (enhanced_chatbot/agents/workflow_manager.py).           *)
(* The AgentOrchestrator it submits tasks to is not among the source files: *)
(* step_tasks[i] is the status of the task last submitted for step i, as   *)
(* get_task_status reports it ("active" while it is not finished), and     *)
(* submit_task, cancel_task and the task outcomes follow the               *)
(* specification.  A driver is one run of _execute_workflow_steps; it is   *)
(* suspended only in the one-second sleep of the polling loop.             *)
(***************************************************************************)
WSt == [workflow |-> workflow, step_tasks |-> step_tasks,
        drivers |-> drivers, active_workflows |-> active_workflows]

WCommit(S) ==
    /\ workflow' = S.workflow
    /\ step_tasks' = S.step_tasks
    /\ drivers' = S.drivers
    /\ active_workflows' = S.active_workflows
    /\ UNCHANGED <<execution, execution_driver>>
    /\ UNCHANGED orchvars
    /\ UNCHANGED bus

StepsOf(w) == 1..Len(w.steps)

get_current_step(w) ==
    IF 0 <= w.current_step_index /\ w.current_step_index < Len(w.steps)
    THEN w.current_step_index + 1 ELSE 0

(* mutant: dependencies are not looked at *)
Workflow_dependencies_met_none(w, i) == TRUE

Workflow_dependencies_met(w, i) ==
    \A dep_id \in w.steps[i].dependencies :
        dep_id \in {j \in StepsOf(w) : w.steps[j].status = "completed"}

(* index of the first Pending step whose dependencies are met, 0 if none *)
get_next_pending_step(w) ==
    LET ready == {i \in StepsOf(w) : /\ w.steps[i].status = "pending"
                                     /\ Workflow_dependencies_met(w, i)}
    IN IF ready = {} THEN 0 ELSE CHOOSE i \in ready : \A j \in ready : i <= j

Workflow_calculate_progress(w) ==
    IF Len(w.steps) = 0 THEN Ratio(100, 1)
    ELSE Ratio(Cardinality({i \in StepsOf(w) : w.steps[i].status = "completed"}) * 100,
               Len(w.steps))

is_complete(w) == \A i \in StepsOf(w) : w.steps[i].status \in {"completed", "skipped"}

has_failed(w) ==
    \E i \in StepsOf(w) : w.steps[i].status = "failed" /\ ~w.steps[i].allow_failure

(* orchestrator.submit_task for step i: a new task, not finished yet *)
submit_task(S, i) ==
    [S EXCEPT !.step_tasks[i] = "active", !.workflow.steps[i].task_id = i]

(* orchestrator.cancel_task for the task of step i *)
Workflow_cancel_task(S, i) ==
    IF S.step_tasks[i] = "active" THEN [S EXCEPT !.step_tasks[i] = "cancelled"] ELSE S

(* the return of _execute_workflow_steps; execute_workflow, which awaits   *)
(* the driver it started, then drops the registration of the workflow id   *)
Finalize(S, d) ==
    LET S1 == [S EXCEPT !.workflow.status =
                            IF is_complete(S.workflow) THEN "completed" ELSE "failed",
                        !.workflow.progress =
                            IF is_complete(S.workflow) THEN Ratio(100, 1) ELSE @,
                        !.drivers[d].pc = "done", !.drivers[d].step = 0]
    IN IF S.drivers[d].via = "execute_workflow"
       THEN [S1 EXCEPT !.active_workflows = NoneD] ELSE S1

(* _execute_workflow_step up to the sleep of its polling loop *)
StartStep(S, d, i) ==
    LET S1 == [S EXCEPT !.workflow.steps[i].status = "running"]
    IN [submit_task(S1, i) EXCEPT !.drivers[d].pc = "polling", !.drivers[d].step = i]

(* the while loop of _execute_workflow_steps from its test *)
DriverLoop(S, d) ==
    IF ~is_complete(S.workflow) /\ ~has_failed(S.workflow)
    THEN LET next_step == get_next_pending_step(S.workflow)
         IN IF next_step = 0
            THEN Finalize([S EXCEPT !.workflow.status = "failed",
                                    !.workflow.error = "deadlock"], d)
            ELSE StartStep(S, d, next_step)
    ELSE Finalize(S, d)

(* mutant: a failed step never fails the workflow *)
AfterStep_ignore_failure(S, d, i, success) == DriverLoop(S, d)

(* the driver after _execute_workflow_step returned success for step i *)
AfterStep(S, d, i, success) ==
    IF ~success /\ ~S.workflow.steps[i].allow_failure
    THEN Finalize([S EXCEPT !.workflow.status = "failed",
                            !.workflow.error = "step_failed"], d)
    ELSE DriverLoop([S EXCEPT !.workflow.progress = Workflow_calculate_progress(S.workflow)], d)

(* mutant: one retry too many *)
PollStep_extra_retry(S, d, i) ==
    IF S.step_tasks[i] = "completed"
    THEN AfterStep([S EXCEPT !.workflow.steps[i].status = "completed"], d, i, TRUE)
    ELSE IF S.workflow.steps[i].retry_count <= S.workflow.steps[i].max_retries
         THEN StartStep([S EXCEPT !.workflow.steps[i].retry_count = @ + 1,
                                  !.workflow.steps[i].status = "pending"], d, i)
         ELSE AfterStep([S EXCEPT !.workflow.steps[i].status = "failed"], d, i, FALSE)

(* the polling loop of _execute_workflow_step once the task has finished *)
PollStep(S, d, i) ==
    IF S.step_tasks[i] = "completed"
    THEN AfterStep([S EXCEPT !.workflow.steps[i].status = "completed"], d, i, TRUE)
    ELSE IF S.workflow.steps[i].retry_count < S.workflow.steps[i].max_retries
         THEN StartStep([S EXCEPT !.workflow.steps[i].retry_count = @ + 1,
                                  !.workflow.steps[i].status = "pending"], d, i)
         ELSE AfterStep([S EXCEPT !.workflow.steps[i].status = "failed"], d, i, FALSE)

(* the step definitions a caller passes to create_workflow *)
WorkflowTemplates ==
    { <<WorkflowStep({}, 0, FALSE), WorkflowStep({1}, 0, FALSE), WorkflowStep({2}, 0, FALSE)>>,
      <<WorkflowStep({2}, 0, FALSE), WorkflowStep({1}, 0, FALSE)>>,
      <<WorkflowStep({}, 0, TRUE), WorkflowStep({}, 0, FALSE)>>,
      <<WorkflowStep({}, MaxRetriesBound, FALSE), WorkflowStep({1}, 0, TRUE)>> }

create_workflow(S, steps) ==
    [S EXCEPT !.workflow = [NoWorkflow EXCEPT !.status = "created", !.steps = steps]]

(* a slot for a new asyncio task running _execute_workflow_steps *)
FreeDrivers(S) == {d \in DriverIds : S.drivers[d].pc \in {"none", "done", "cancelled"}}

SpawnDriver(S, d, via) ==
    [S EXCEPT !.drivers[d] = [pc |-> "start", step |-> 0, via |-> via],
              !.active_workflows = d]

pause_workflow(S) ==
    IF S.workflow.status # "running" THEN [ok |-> FALSE, S |-> S]
    ELSE LET S1 == [S EXCEPT !.workflow.status = "paused"]
             current_step == get_current_step(S1.workflow)
         IN [ok |-> TRUE,
             S |-> IF current_step # 0 /\ S1.workflow.steps[current_step].task_id # NoneT
                   THEN Workflow_cancel_task(S1, current_step) ELSE S1]

resume_workflow(S, d) ==
    IF S.workflow.status # "paused" THEN [ok |-> FALSE, S |-> S]
    ELSE [ok |-> TRUE,
          S |-> SpawnDriver([S EXCEPT !.workflow.status = "running"], d, "resume_workflow")]

RECURSIVE CancelRunningSteps(_, _)
CancelRunningSteps(S, i) ==
    IF i > Len(S.workflow.steps) THEN S
    ELSE IF S.workflow.steps[i].task_id # NoneT /\ S.workflow.steps[i].status = "running"
         THEN CancelRunningSteps([Workflow_cancel_task(S, i) EXCEPT
                                     !.workflow.steps[i].status = "cancelled"], i + 1)
         ELSE CancelRunningSteps(S, i + 1)

(* mutant: the steps that are running are left as they are *)
cancel_workflow_keep_steps(S) ==
    IF S.workflow.status \in {"none", "completed", "cancelled"} THEN [ok |-> FALSE, S |-> S]
    ELSE LET S1 == [S EXCEPT !.workflow.status = "cancelled"]
         IN [ok |-> TRUE,
             S |-> IF S1.active_workflows # NoneD
                   THEN [S1 EXCEPT !.drivers[S1.active_workflows].pc = "cancelled",
                                   !.drivers[S1.active_workflows].step = 0,
                                   !.active_workflows = NoneD]
                   ELSE S1]

cancel_workflow(S) ==
    IF S.workflow.status \in {"none", "completed", "cancelled"} THEN [ok |-> FALSE, S |-> S]
    ELSE LET S1 == [S EXCEPT !.workflow.status = "cancelled"]
             S2 == CancelRunningSteps(S1, 1)
         IN [ok |-> TRUE,
             S |-> IF S2.active_workflows # NoneD
                   THEN [S2 EXCEPT !.drivers[S2.active_workflows].pc = "cancelled",
                                   !.drivers[S2.active_workflows].step = 0,
                                   !.active_workflows = NoneD]
                   ELSE S2]

WLast(op, ret) == [NoLast EXCEPT !.op = op, !.ret = ret]

CreateWorkflow ==
    /\ workflow.status = "none"
    /\ execution.status = "none"
    /\ \E steps \in WorkflowTemplates : WCommit(create_workflow(WSt, steps))
    /\ last' = WLast("create_workflow", TRUE)

ExecuteWorkflow ==
    /\ workflow.status = "created"
    /\ FreeDrivers(WSt) # {}
    /\ WCommit(SpawnDriver(WSt, CHOOSE d \in FreeDrivers(WSt) : TRUE, "execute_workflow"))
    /\ last' = WLast("execute_workflow", TRUE)

DriverStart ==
    /\ \E d \in DriverIds :
         /\ drivers[d].pc = "start"
         /\ WCommit(DriverLoop([WSt EXCEPT !.workflow.status = "running"], d))
    /\ last' = WLast("driver", TRUE)

DriverPoll ==
    /\ \E d \in DriverIds :
         /\ drivers[d].pc = "polling"
         /\ step_tasks[drivers[d].step] \in {"completed", "failed", "cancelled"}
         /\ WCommit(PollStep(WSt, d, drivers[d].step))
    /\ last' = WLast("driver", TRUE)

(* the orchestrator finishes the task of a step *)
StepTaskCompletes ==
    /\ \E i \in StepIds :
         /\ step_tasks[i] = "active"
         /\ WCommit([WSt EXCEPT !.step_tasks[i] = "completed"])
    /\ last' = WLast("task", TRUE)

StepTaskFails ==
    /\ \E i \in StepIds :
         /\ step_tasks[i] = "active"
         /\ WCommit([WSt EXCEPT !.step_tasks[i] = "failed"])
    /\ last' = WLast("task", FALSE)

PauseWorkflow ==
    /\ workflow.status # "none"
    /\ LET r == pause_workflow(WSt)
       IN /\ WCommit(r.S)
          /\ last' = WLast("pause_workflow", r.ok)

ResumeWorkflow ==
    /\ workflow.status # "none"
    /\ FreeDrivers(WSt) # {}
    /\ LET r == resume_workflow(WSt, CHOOSE d \in FreeDrivers(WSt) : TRUE)
       IN /\ WCommit(r.S)
          /\ last' = WLast("resume_workflow", r.ok)

CancelWorkflow ==
    /\ LET r == cancel_workflow(WSt)
       IN /\ WCommit(r.S)
          /\ last' = WLast("cancel_workflow", r.ok)

(***************************************************************************)
(* WorkflowManager and WorkflowExecution of workflow_manager.py: the       *)
(* approval-gated plan runner.  One execution is followed; its driver      *)
(* (_execute_workflow_async) is suspended in the sleep of                  *)
(* _wait_for_approval or in the awaited step body.                         *)
(***************************************************************************)
ESt == [execution |-> execution, execution_driver |-> execution_driver]

ECommit(S) ==
    /\ execution' = S.execution
    /\ execution_driver' = S.execution_driver
    /\ UNCHANGED <<workflow, step_tasks, drivers, active_workflows>>
    /\ UNCHANGED orchvars
    /\ UNCHANGED bus

dependencies_satisfied(e, i) ==
    \A dep_id \in e.steps[i].dependencies : dep_id \in Range(e.completed_steps)

get_next_step(e) ==
    LET open == {i \in 1..Len(e.steps) : /\ i \notin Range(e.completed_steps)
                                         /\ i \notin Range(e.failed_steps)
                                         /\ i # e.current_step
                                         /\ dependencies_satisfied(e, i)}
    IN IF open = {} THEN 0 ELSE CHOOSE i \in open : \A j \in open : i <= j

(* (completed + current_progress) / total_steps * 100 with current_progress *)
(* 0.5 while a step is current, capped at 100.0                             *)
Execution_calculate_progress(e) ==
    IF Len(e.steps) = 0 THEN Ratio(0, 1)
    ELSE Ratio(Min(100 * 2 * Len(e.steps),
                   (2 * Len(e.completed_steps) + (IF e.current_step # 0 THEN 1 ELSE 0)) * 100),
               2 * Len(e.steps))

is_critical_step(e, i) == e.steps[i].step_id \in {"data_analysis", "model_training"}

(* the except clause of _execute_workflow_async *)
ExecutionFailed(S) ==
    [S EXCEPT !.execution.status = "failed", !.execution_driver = [NoDriver EXCEPT !.pc = "done"]]

(* _execute_step up to the awaited step body *)
ExecuteStepStart(S, i) ==
    [S EXCEPT !.execution.current_step = i,
              !.execution.steps[i].status = "in_progress",
              !.execution_driver.pc = "executing",
              !.execution_driver.step = i]

(* the while loop of _execute_workflow_async from its top *)
ExecutionLoop(S) ==
    LET next_step == get_next_step(S.execution)
    IN IF next_step = 0
       THEN [S EXCEPT !.execution.status = "completed",
                      !.execution_driver = [NoDriver EXCEPT !.pc = "done"]]
       ELSE IF ~S.execution.auto_approve /\ ~S.execution.user_approvals[next_step]
            THEN [S EXCEPT !.execution.status = "paused",
                           !.execution_driver.pc = "waiting_approval",
                           !.execution_driver.step = next_step]
            ELSE ExecuteStepStart(S, next_step)

(* one turn of the loop of _wait_for_approval after its sleep *)
wait_for_approval(S, timed_out) ==
    LET i == S.execution_driver.step
    IN IF timed_out \/ S.execution.status = "cancelled" THEN ExecutionFailed(S)
       ELSE IF S.execution.user_approvals[i]
            THEN ExecuteStepStart([S EXCEPT !.execution.status = "running"], i)
            ELSE S

StepReturns(S, i) ==
    ExecutionLoop([S EXCEPT !.execution.completed_steps = Append(@, i),
                            !.execution.steps[i].status = "completed",
                            !.execution.current_step = 0])

StepRaises(S, i) ==
    LET S1 == [S EXCEPT !.execution.failed_steps = Append(@, i),
                        !.execution.steps[i].status = "failed",
                        !.execution.current_step = 0]
    IN IF is_critical_step(S1.execution, i) THEN ExecutionFailed(S1) ELSE ExecutionLoop(S1)

(* the plans a caller passes to execute_workflow *)
PlanTemplates ==
    { <<PlanStep("data_analysis", {}), PlanStep("preprocessing", {1}), PlanStep("forecasting", {2})>>,
      <<PlanStep("preprocessing", {2}), PlanStep("evaluation", {1})>>,
      <<PlanStep("preprocessing", {}), PlanStep("evaluation", {})>> }

ExecuteWorkflowPlan ==
    /\ workflow.status = "none"
    /\ execution.status = "none"
    /\ \E steps \in PlanTemplates, auto_approve \in BOOLEAN :
         ECommit([ESt EXCEPT !.execution = [NoExecution EXCEPT !.status = "created",
                                                               !.steps = steps,
                                                               !.auto_approve = auto_approve],
                             !.execution_driver = [NoDriver EXCEPT !.pc = "start"]])
    /\ last' = WLast("execute_workflow", TRUE)

ExecutionDriverStart ==
    /\ execution_driver.pc = "start"
    /\ ECommit(ExecutionLoop([ESt EXCEPT !.execution.status = "running"]))
    /\ last' = WLast("driver", TRUE)

ApprovalWake ==
    /\ execution_driver.pc = "waiting_approval"
    /\ \E timed_out \in BOOLEAN : ECommit(wait_for_approval(ESt, timed_out))
    /\ last' = WLast("driver", TRUE)

PlanStepReturns ==
    /\ execution_driver.pc = "executing"
    /\ ECommit(StepReturns(ESt, execution_driver.step))
    /\ last' = WLast("driver", TRUE)

PlanStepRaises ==
    /\ execution_driver.pc = "executing"
    /\ ECommit(StepRaises(ESt, execution_driver.step))
    /\ last' = WLast("driver", FALSE)

ApproveStep ==
    /\ execution.status # "none"
    /\ \E i \in 1..Len(execution.steps), approved \in BOOLEAN :
         ECommit([ESt EXCEPT !.execution.user_approvals[i] = approved,
                             !.execution.rejected = IF approved THEN @ \ {i} ELSE @ \cup {i},
                             !.execution.status = IF approved THEN @ ELSE "cancelled"])
    /\ last' = WLast("approve_step", TRUE)

PausePlan ==
    /\ execution.status = "running"
    /\ ECommit([ESt EXCEPT !.execution.status = "paused"])
    /\ last' = WLast("pause_workflow", TRUE)

ResumePlan ==
    /\ execution.status = "paused"
    /\ ECommit([ESt EXCEPT !.execution.status = "running"])
    /\ last' = WLast("resume_workflow", TRUE)

CancelPlan ==
    /\ execution.status # "none"
    /\ ECommit([ESt EXCEPT !.execution.status = "cancelled"])
    /\ last' = WLast("cancel_workflow", TRUE)

NextWF ==
    \/ CreateWorkflow
    \/ ExecuteWorkflow
    \/ DriverStart
    \/ DriverPoll
    \/ StepTaskCompletes
    \/ StepTaskFails
    \/ PauseWorkflow
    \/ ResumeWorkflow
    \/ CancelWorkflow
    \/ ExecuteWorkflowPlan
    \/ ExecutionDriverStart
    \/ ApprovalWake
    \/ PlanStepReturns
    \/ PlanStepRaises
    \/ ApproveStep
    \/ PausePlan
    \/ ResumePlan
    \/ CancelPlan

SpecWF == Init /\ [][NextWF]_vars

(***************************************************************************)
(* MessageBus (communication.py).  Every method is a function from the     *)
(* state of the bus to its state, with the value it returns where it has   *)
(* one.                                                                    *)
(***************************************************************************)
is_expired(B, id) ==
    B.messages[id].expires_at # NoExpiry /\ B.now > B.messages[id].expires_at

(* uuid4(): an id no message has yet *)
FreshId(B) ==
    IF \E id \in MsgIds : B.messages[id] = NoMessage
    THEN CHOOSE id \in MsgIds : /\ B.messages[id] = NoMessage
                                /\ \A j \in MsgIds : j < id => B.messages[j] # NoMessage
    ELSE NoneM

register_agent(B, agent_id) ==
    IF agent_id \notin B.keys
    THEN [B EXCEPT !.keys = @ \cup {agent_id}, !.message_queues[agent_id] = <<>>]
    ELSE B

subscribe(B, agent_id, message_type) ==
    [B EXCEPT !.subscribers[message_type] = Append(@, agent_id)]

(* the broadcast loop of send_message; message_queues is a defaultdict, so *)
(* indexing it creates the key                                             *)
RECURSIVE BroadcastTo(_, _, _)
BroadcastTo(B, subscribers, id) ==
    IF subscribers = <<>> THEN B
    ELSE LET subscriber_id == Head(subscribers)
             B1 == IF subscriber_id # B.messages[id].sender_id
                   THEN [B EXCEPT !.keys = @ \cup {subscriber_id},
                                  !.message_queues[subscriber_id] = Append(@, id)]
                   ELSE B
         IN BroadcastTo(B1, Tail(subscribers), id)

(* send_message indexing the mailboxes for a direct message as it does for *)
(* a broadcast: the mailbox of an unknown recipient is created            *)
send_message_create(B, message) ==
    LET history == Append(B.message_history, message.id)
        B1 == [B EXCEPT !.messages[message.id] = message,
                        !.message_history =
                            IF Len(history) > MaxHistory THEN Tail(history) ELSE history]
    IN IF message.recipient_id # NoRecipient
       THEN [ok |-> TRUE,
             B |-> [B1 EXCEPT !.keys = @ \cup {message.recipient_id},
                              !.message_queues[message.recipient_id] = Append(@, message.id)]]
       ELSE [ok |-> TRUE,
             B |-> BroadcastTo(B1, B1.subscribers[message.message_type], message.id)]

(* send_message for a message object just created *)
send_message(B, message) ==
    LET history == Append(B.message_history, message.id)
        B1 == [B EXCEPT !.messages[message.id] = message,
                        !.message_history =
                            IF Len(history) > MaxHistory THEN Tail(history) ELSE history]
    IN IF message.recipient_id # NoRecipient
       THEN IF message.recipient_id \in B1.keys
            THEN [ok |-> TRUE,
                  B |-> [B1 EXCEPT !.message_queues[message.recipient_id] = Append(@, message.id)]]
            ELSE [ok |-> FALSE, B |-> B1]
       ELSE [ok |-> TRUE,
             B |-> BroadcastTo(B1, B1.subscribers[message.message_type], message.id)]

get_messages(B, agent_id, limit) ==
    IF agent_id \notin B.keys THEN [messages |-> <<>>, B |-> B]
    ELSE LET queue == B.message_queues[agent_id]
             n == Min(limit, Len(queue))
         IN [messages |-> SelectSeq(SubSeq(queue, 1, n), LAMBDA id : ~is_expired(B, id)),
             B |-> [B EXCEPT !.message_queues[agent_id] = SubSeq(queue, n + 1, Len(queue))]]

(* the correlation id of a request is modelled by the id of its message *)
send_request(B, sender_id, recipient_id, request_type, timeout) ==
    LET correlation_id == FreshId(B)
        message == AgentMessage(correlation_id, sender_id, recipient_id, request_type,
                                B.now, B.now + timeout, correlation_id)
        r == send_message(B, message)
    IN IF r.ok
       THEN [raised |-> FALSE, correlation_id |-> correlation_id,
             B |-> [r.B EXCEPT !.pending_responses = @ \cup {correlation_id}]]
       ELSE [raised |-> TRUE, correlation_id |-> NoneM, B |-> r.B]

(* positions of the history whose message carries the correlation id *)
HistoryHits(B, correlation_id) ==
    {i \in 1..Len(B.message_history) :
        B.messages[B.message_history[i]].correlation_id = correlation_id}

send_response(B, sender_id, correlation_id) ==
    LET hits == HistoryHits(B, correlation_id)
    IN IF hits = {} THEN B
       ELSE LET first == CHOOSE i \in hits : \A j \in hits : i <= j
                original_request == B.messages[B.message_history[first]]
                response == AgentMessage(FreshId(B), sender_id, original_request.sender_id,
                                         "task_response", B.now, NoExpiry, correlation_id)
            IN [send_message(B, response).B EXCEPT !.pending_responses = @ \ {correlation_id}]

(* a caller may create one more message *)
CanCreate(B) == FreshId(B) \in 1..MaxMessages

BCommit(B, ret) ==
    /\ bus' = [B EXCEPT !.ret = ret]
    /\ UNCHANGED <<orchvars, wfvars, last>>

(* agents are registered and subscribed while the orchestrators are built, *)
(* before any message exists                                               *)
Building(B) == \A id \in MsgIds : B.messages[id] = NoMessage

(* the registration loop of _initialize_default_agents over the agents of  *)
(* one orchestrator, on the bus all orchestrators share                    *)
RECURSIVE initialize_default_agents(_, _)
initialize_default_agents(B, agent_ids) ==
    IF agent_ids = <<>> THEN B
    ELSE initialize_default_agents(
             subscribe(subscribe(register_agent(B, Head(agent_ids)),
                                 Head(agent_ids), "status_update"),
                       Head(agent_ids), "error_report"),
             Tail(agent_ids))

(* EnhancedAgentOrchestrator(): orchestrator.py and api/chat_orchestrator.py *)
(* each build one                                                          *)
InitializeDefaultAgents ==
    /\ Building(bus)
    /\ Len(bus.subscribers["status_update"]) < MaxInstances * Len(DefaultAgents)
    /\ BCommit(initialize_default_agents(bus, DefaultAgents),
               [NoRet EXCEPT !.op = "initialize_default_agents"])

RegisterAgent ==
    /\ Building(bus)
    /\ \E agent_id \in {"orchestrator"} :
         /\ agent_id \notin bus.keys
         /\ BCommit(register_agent(bus, agent_id),
                    [NoRet EXCEPT !.op = "register_agent", !.agent = agent_id])

Subscribe ==
    /\ Building(bus)
    /\ \E agent_id \in {"agent_b"}, message_type \in {"heartbeat"} :
         /\ bus.subscribers[message_type] = <<>>
         /\ BCommit(subscribe(bus, agent_id, message_type),
                    [NoRet EXCEPT !.op = "subscribe", !.agent = agent_id])

(* send_message, or broadcast when there is no recipient, with a new message *)
SendMessage ==
    /\ CanCreate(bus)
    /\ \E sender_id \in {"agent_a"}, recipient_id \in {"agent_b", NoRecipient},
          message_type \in {"status_update", "heartbeat"}, expires_at \in {NoExpiry, bus.now} :
         /\ message_type = "heartbeat" => (recipient_id = NoRecipient /\ expires_at = NoExpiry)
         /\ LET message == AgentMessage(FreshId(bus), sender_id, recipient_id, message_type,
                                        bus.now, expires_at, NoneM)
                r == send_message(bus, message)
            IN BCommit(r.B, [NoRet EXCEPT !.op = "send_message", !.ok = r.ok,
                                          !.messages = <<message.id>>])

SendRequest ==
    /\ CanCreate(bus)
    /\ \E sender_id \in {"orchestrator"}, recipient_id \in {"agent_b"}, timeout \in {0} :
         LET r == send_request(bus, sender_id, recipient_id, "heartbeat", timeout)
         IN BCommit(r.B, [NoRet EXCEPT !.op = "send_request", !.ok = ~r.raised,
                                       !.raised = r.raised,
                                       !.messages = <<FreshId(bus)>>,
                                       !.correlation_id = r.correlation_id])

(* correlation ids nothing in the history carries are all alike: the least *)
(* of them stands for the others                                           *)
SendResponse ==
    /\ ~Building(bus)
    /\ \E sender_id \in {"agent_b"}, correlation_id \in MsgIds :
         /\ HistoryHits(bus, correlation_id) = {} \/ CanCreate(bus)
         /\ HistoryHits(bus, correlation_id) = {} =>
               \A other \in MsgIds : HistoryHits(bus, other) = {} => correlation_id <= other
         /\ BCommit(send_response(bus, sender_id, correlation_id),
                    [NoRet EXCEPT !.op = "send_response", !.agent = sender_id,
                                  !.correlation_id = correlation_id])

GetMessages ==
    /\ ~Building(bus)
    /\ \E agent_id \in BusIds, limit \in 1..2 :
         LET r == get_messages(bus, agent_id, limit)
         IN BCommit([r.B EXCEPT !.returned[agent_id] = @ \cup Range(r.messages)],
                    [NoRet EXCEPT !.op = "get_messages", !.agent = agent_id,
                                  !.limit = limit, !.messages = r.messages])

(* time passes *)
Tick ==
    /\ bus.now < MaxClock
    /\ BCommit([bus EXCEPT !.now = @ + 1], [NoRet EXCEPT !.op = "tick"])

NextBus ==
    \/ InitializeDefaultAgents
    \/ RegisterAgent
    \/ Subscribe
    \/ SendMessage
    \/ SendRequest
    \/ SendResponse
    \/ GetMessages
    \/ Tick

SpecBus == Init /\ [][NextBus]_vars

(***************************************************************************)
(* Expiry of requests and messages (communication.py).  The clock counts   *)
(* in units in which the timeout of the requests is less than one unit and *)
(* the default timeout_seconds of get_pending_responses is one unit.       *)
(***************************************************************************)
DefaultTimeout == 1

(* the correlation ids get_pending_responses returns *)
get_pending_responses(B, timeout_seconds) ==
    {correlation_id \in B.pending_responses :
        B.messages[correlation_id].timestamp < B.now - timeout_seconds}

(* the second loop of cleanup_expired_messages on one queue: the expired   *)
(* indices from the last to the first, each removed by queue.remove(queue[i]) *)
RECURSIVE RemoveExpired(_, _)
RemoveExpired(queue, expired_messages) ==
    IF expired_messages = {} THEN queue
    ELSE LET i == CHOOSE k \in expired_messages : \A j \in expired_messages : k >= j
         IN RemoveExpired(DequeRemove(queue, queue[i]), expired_messages \ {i})

cleanup_expired_messages(B) ==
    [B EXCEPT !.pending_responses =
                  {correlation_id \in @ : ~is_expired(B, correlation_id)},
              !.message_queues =
                  [a \in BusIds |->
                      RemoveExpired(@[a], {i \in 1..Len(@[a]) : is_expired(B, @[a][i])})]]

GetPendingResponses ==
    /\ bus.pending_responses # {}
    /\ \E timeout_seconds \in {0, DefaultTimeout} :
         BCommit(bus, [NoRet EXCEPT !.op = "get_pending_responses",
                                    !.timeout_seconds = timeout_seconds,
                                    !.expired = get_pending_responses(bus, timeout_seconds)])

CleanupExpiredMessages ==
    /\ ~Building(bus)
    /\ BCommit(cleanup_expired_messages(bus), [NoRet EXCEPT !.op = "cleanup_expired_messages"])

NextExpiry ==
    \/ InitializeDefaultAgents
    \/ SendMessage
    \/ SendRequest
    \/ SendResponse
    \/ GetMessages
    \/ Tick
    \/ GetPendingResponses
    \/ CleanupExpiredMessages

SpecExpiry == Init /\ [][NextExpiry]_vars

(***************************************************************************)
(* The message-processing loop of the orchestrator (orchestrator.py) on    *)
(* the bus.  Nothing in a pass suspends before its sleep, so a pass over   *)
(* all agents is one step.  ok is false when the pass needs more message   *)
(* ids than are left.                                                      *)
(***************************************************************************)
broadcast(B, sender_id, message_type) ==
    send_message(B, AgentMessage(FreshId(B), sender_id, NoRecipient, message_type,
                                 B.now, NoExpiry, NoneM)).B

(* _handle_status_update: the agent named in the message is registered;    *)
(* the coordinator's update_agent_status broadcasts the report             *)
handle_status_update(B) == broadcast(B, "coordinator", "status_update")

(* the dispatch of one message read from the mailbox of agent_id *)
HandleMessage(B, agent_id, id) ==
    IF B.messages[id].message_type = "status_update"
    THEN IF FreshId(B) = NoneM THEN [ok |-> FALSE, B |-> B]
         ELSE [ok |-> TRUE, B |-> handle_status_update(B)]
    ELSE IF B.messages[id].message_type = "heartbeat" /\ B.messages[id].correlation_id # NoneM
    THEN IF HistoryHits(B, B.messages[id].correlation_id) # {} /\ FreshId(B) = NoneM
         THEN [ok |-> FALSE, B |-> B]
         ELSE [ok |-> TRUE, B |-> send_response(B, agent_id, B.messages[id].correlation_id)]
    ELSE [ok |-> TRUE, B |-> B]

RECURSIVE HandleAll(_, _, _)
HandleAll(B, agent_id, messages) ==
    IF messages = <<>> THEN [ok |-> TRUE, B |-> B]
    ELSE LET r == HandleMessage(B, agent_id, Head(messages))
         IN IF r.ok THEN HandleAll(r.B, agent_id, Tail(messages)) ELSE [ok |-> FALSE, B |-> B]

(* one pass of _message_processing_loop over self.agents *)
RECURSIVE message_processing_pass(_, _)
message_processing_pass(B, agent_ids) ==
    IF agent_ids = <<>> THEN [ok |-> TRUE, B |-> B]
    ELSE LET got == get_messages(B, Head(agent_ids), 5)
             r == HandleAll(got.B, Head(agent_ids), got.messages)
         IN IF r.ok THEN message_processing_pass(r.B, Tail(agent_ids)) ELSE [ok |-> FALSE, B |-> B]

QueuedMessages(B) == {id \in MsgIds : \E a \in BusIds : id \in Range(B.message_queues[a])}

MessageProcessingPass ==
    /\ QueuedMessages(bus) # {}
    /\ message_processing_pass(bus, DefaultAgents).ok
    /\ BCommit(message_processing_pass(bus, DefaultAgents).B,
               [NoRet EXCEPT !.op = "message_processing_pass"])

NextLoop ==
    \/ InitializeDefaultAgents
    \/ RegisterAgent
    \/ Subscribe
    \/ SendMessage
    \/ SendRequest
    \/ Tick
    \/ MessageProcessingPass

SpecLoop == Init /\ [][NextLoop]_vars


(***************************************************************************)
(* Default error recovery (communication.py) as the message-processing     *)
(* loop reaches it: _handle_error_report is awaited by the loop, and       *)
(* _default_error_recovery sleeps between its heartbeat request and its    *)
(* look at pending_responses, so the loop that handles the report stands   *)
(* still in between while the other coroutines run.                        *)
(***************************************************************************)
(* timeout=5 of the heartbeat request *)
RecoveryTimeout == 5

(* the orchestrators built so far; each has a loop of its own *)
Instances(B) == Len(B.subscribers["error_report"]) \div Len(DefaultAgents)

(* the first half of _default_error_recovery, up to its sleep *)
default_error_recovery(B, agent_id) ==
    send_request(B, "coordinator", agent_id, "heartbeat", RecoveryTimeout)

(* the loop of orchestrator i from the point where messages of the mailbox *)
(* of agent_id are left to handle and agent_ids are left to visit, up to   *)
(* the sleep that ends the pass or the sleep of a recovery                 *)
RECURSIVE message_processing_loop(_, _, _, _, _)
message_processing_loop(B, i, agent_id, messages, agent_ids) ==
    IF messages = <<>>
    THEN IF agent_ids = <<>>
         THEN [ok |-> TRUE, B |-> [B EXCEPT !.loops[i] = NoLoop]]
         ELSE LET got == get_messages(B, Head(agent_ids), 5)
              IN message_processing_loop(got.B, i, Head(agent_ids), got.messages,
                                         Tail(agent_ids))
    ELSE IF B.messages[Head(messages)].message_type = "error_report"
    THEN IF FreshId(B) = NoneM THEN [ok |-> FALSE, B |-> B]
         ELSE LET subject == B.messages[Head(messages)].sender_id
                  r == default_error_recovery(B, subject)
              IN IF r.raised
                 THEN message_processing_loop(r.B, i, agent_id, Tail(messages), agent_ids)
                 ELSE [ok |-> TRUE,
                       B |-> [r.B EXCEPT !.loops[i] =
                                 [pc |-> "recovering", agent_id |-> agent_id,
                                  messages |-> Tail(messages), agent_ids |-> agent_ids,
                                  subject |-> subject,
                                  correlation_id |-> r.correlation_id]]]
    ELSE LET r == HandleMessage(B, agent_id, Head(messages))
         IN IF r.ok
            THEN message_processing_loop(r.B, i, agent_id, Tail(messages), agent_ids)
            ELSE [ok |-> FALSE, B |-> B]

(* an agent, or something that is no agent of an orchestrator, reports an  *)
(* error to one agent or to the subscribers                                *)
SendErrorReport ==
    /\ CanCreate(bus)
    /\ \E sender_id \in {"agent_a", "orchestrator"}, recipient_id \in {"agent_b", NoRecipient} :
         LET message == AgentMessage(FreshId(bus), sender_id, recipient_id, "error_report",
                                     bus.now, NoExpiry, NoneM)
             r == send_message(bus, message)
         IN BCommit(r.B, [NoRet EXCEPT !.op = "send_error_report", !.agent = sender_id,
                                       !.ok = r.ok, !.messages = <<message.id>>])

(* a loop wakes from the sleep between two passes and runs *)
LoopPass ==
    /\ QueuedMessages(bus) # {}
    /\ \E i \in 1..MaxInstances :
         /\ i <= Instances(bus)
         /\ bus.loops[i].pc = "idle"
         /\ message_processing_loop(bus, i, "none", <<>>, DefaultAgents).ok
         /\ BCommit(message_processing_loop(bus, i, "none", <<>>, DefaultAgents).B,
                    [NoRet EXCEPT !.op = "message_processing_loop"])

(* the second half of _default_error_recovery: the sleep is over, the      *)
(* pending entry is looked up, and the loop goes on with its pass          *)
RecoveryWake ==
    /\ ~Building(bus)
    /\ \E i \in 1..MaxInstances :
         /\ bus.loops[i].pc = "recovering"
         /\ message_processing_loop(bus, i, bus.loops[i].agent_id, bus.loops[i].messages,
                                    bus.loops[i].agent_ids).ok
         /\ BCommit(message_processing_loop(bus, i, bus.loops[i].agent_id,
                                            bus.loops[i].messages, bus.loops[i].agent_ids).B,
                    [NoRet EXCEPT !.op = "default_error_recovery",
                                  !.agent = bus.loops[i].subject,
                                  !.ok = bus.loops[i].correlation_id \notin bus.pending_responses,
                                  !.correlation_id = bus.loops[i].correlation_id])

NextRecovery ==
    \/ InitializeDefaultAgents
    \/ RegisterAgent
    \/ SendErrorReport
    \/ LoopPass
    \/ RecoveryWake
    \/ Tick

SpecRecovery == Init /\ [][NextRecovery]_vars

(***************************************************************************)
(* The public operations called in the states in which they fail: an       *)
(* unknown workflow id, a workflow that is not Created, an unknown         *)
(* recipient of a request, insufficient resources.                         *)
(***************************************************************************)
(* execute_workflow of agents/workflow_manager.py: the two ValueErrors *)
ExecuteWorkflowRaises ==
    /\ workflow.status # "created"
    /\ WCommit(WSt)
    /\ last' = [WLast("execute_workflow", FALSE) EXCEPT !.raised = TRUE]

(* approve_step of workflow_manager.py for an id not in active_workflows *)
ApproveStepRaises ==
    /\ execution.status = "none"
    /\ ECommit(ESt)
    /\ last' = [WLast("approve_step", FALSE) EXCEPT !.raised = TRUE]

(* the resource manager shares no state with the workflow managers and    *)
(* the message bus: its calls are taken before theirs                     *)
AllocateCall ==
    /\ workflow.status = "none"
    /\ execution.status = "none"
    /\ Building(bus)
    /\ bus.keys = {}
    /\ RMAllocate

NextErr ==
    \/ CreateWorkflow
    \/ ExecuteWorkflow
    \/ DriverStart
    \/ ExecuteWorkflowRaises
    \/ ExecuteWorkflowPlan
    \/ ApproveStep
    \/ ApproveStepRaises
    \/ InitializeDefaultAgents
    \/ SendRequest
    \/ AllocateCall

SpecErr == Init /\ [][NextErr]_vars

(***************************************************************************)
(* Properties.                                                             *)
(***************************************************************************)
RECURSIVE AmountOf(_, _)
AmountOf(requirements, r) ==
    IF requirements = <<>> THEN 0
    ELSE (IF Head(requirements).resource_type = r THEN Head(requirements).amount ELSE 0)
         + AmountOf(Tail(requirements), r)

RECURSIVE DemandOf(_, _)
DemandOf(ts, r) ==
    IF ts = {} THEN 0
    ELSE LET t == CHOOSE u \in ts : TRUE
         IN AmountOf(tasks[t].resource_requirements, r) + DemandOf(ts \ {t}, r)

InFlight == {t \in TaskIds : tasks[t].status \in {"assigned", "running"}}

Bucket(t) == queues[tasks[t].priority]

PassesFilter(t, f) == f = NoFilter \/ tasks[t].agent_type = f

(* C1: a task with a non-empty dependency list is in a priority bucket, or  *)
(* is returned by get_next_task, only in states where every id of the list  *)
(* has been marked completed.                                              *)
C1_DependenciesGateDequeue ==
    /\ \A p \in TaskPriority : \A i \in 1..Len(queues[p]) :
          tasks[queues[p][i]].dependencies \subseteq completed_tasks
    /\ (last.op = "get_next_task" /\ last.task # NoneT)
          => tasks[last.task].dependencies \subseteq completed_tasks

C1_Witness ==
    /\ last.op = "get_next_task"
    /\ last.task # NoneT
    /\ tasks[last.task].dependencies # {}

(* C2: get_next_task(filter) returns a task that was queued and passes the  *)
(* filter, no task passing the filter was queued in a higher-priority      *)
(* bucket, and it returns None only if no queued task passes the filter.   *)
C2_StrictPriority ==
    [][last'.op = "get_next_task" =>
         LET f == last'.filter
             r == last'.task
         IN IF r = NoneT
            THEN \A p \in TaskPriority : \A i \in 1..Len(queues[p]) : ~PassesFilter(queues[p][i], f)
            ELSE /\ PassesFilter(r, f)
                 /\ r \in Range(Bucket(r))
                 /\ \A p \in TaskPriority : p > tasks[r].priority =>
                       \A i \in 1..Len(queues[p]) : ~PassesFilter(queues[p][i], f)]_vars

(* T1 (Low), T2 (Critical), T3 (Normal) were enqueued in this order and the *)
(* dequeue returned T2 *)
C2_Witness ==
    /\ last.op = "get_next_task"
    /\ last.task = 2
    /\ tasks[2].priority = CRITICAL
    /\ queues[LOW] = <<1>>
    /\ queues[NORMAL] = <<3>>

(* C3: within the bucket it is taken from, the returned task is the first   *)
(* one in arrival order that passes the filter; the dequeue removes that    *)
(* one entry and leaves every other entry of every bucket in place.        *)
C3_FifoWithinBucket ==
    [][(last'.op = "get_next_task" /\ last'.task # NoneT) =>
         LET f == last'.filter
             r == last'.task
             p == tasks[r].priority
         IN /\ \E i \in 1..Len(queues[p]) :
                 /\ queues[p][i] = r
                 /\ \A j \in 1..(i - 1) : ~PassesFilter(queues[p][j], f)
                 /\ queues'[p] = RemoveAt(queues[p], i)
            /\ \A q \in TaskPriority \ {p} : queues'[q] = queues[q]
            /\ waiting_dependencies' = waiting_dependencies]_vars

(* a filtered dequeue took a task from behind the head of its bucket, which  *)
(* is of another class, and left two tasks queued                          *)
C3_Witness ==
    /\ last.op = "get_next_task"
    /\ last.filter # NoFilter
    /\ last.task # NoneT
    /\ Len(Bucket(last.task)) = 2
    /\ ~PassesFilter(Bucket(last.task)[1], last.filter)

C5_RefusedTaskBackAtHead ==
    last.op = "schedule_pending_tasks" =>
        \A t \in last.refused :
            /\ tasks[t].status = "pending"
            /\ \E i \in 1..Len(Bucket(t)) : i <= Cardinality(last.refused) /\ Bucket(t)[i] = t

(* C6: a task becomes Assigned only to an agent that was Idle, below full   *)
(* load and healthy in the state the assignment was made in; a refused     *)
(* assign_task call changes no task, no agent and no resource counter.     *)
C6_AssignOnlyToAvailable ==
    [][/\ \A t \in TaskIds :
            (tasks'[t].status = "assigned" /\ tasks[t].status # "assigned") =>
                LET a == tasks'[t].assigned_agent
                IN /\ a \in AgentIds
                   /\ agents[a].status = "idle"
                   /\ agents[a].current_load < 2
                   /\ agents[a].health_status = "healthy"
       /\ (last'.op = "assign_task" /\ ~last'.ret) =>
             /\ tasks' = tasks
             /\ agents' = agents
             /\ queues' = queues
             /\ allocated_resources' = allocated_resources
             /\ resource_reservations' = resource_reservations]_vars

(* assign_task was refused while a Pending task existed and an agent was    *)
(* Idle but unhealthy *)
C6_Witness ==
    /\ last.op = "assign_task"
    /\ ~last.ret
    /\ \E t \in TaskIds : tasks[t].status = "pending"
    /\ \E a \in AgentIds : agents[a].status = "idle" /\ agents[a].health_status # "healthy"

LegalTransitions ==
    { <<"none", "pending">>, <<"none", "waiting_dependencies">>,
      <<"waiting_dependencies", "pending">>, <<"pending", "assigned">>,
      <<"assigned", "running">>, <<"running", "completed">>,
      <<"running", "failed">>, <<"running", "cancelled">>, <<"running", "pending">>,
      <<"assigned", "failed">>, <<"assigned", "pending">> }

(* C7: a task's status moves only along the legal transitions, and a task   *)
(* that is Completed, Failed or Cancelled keeps its status, result and     *)
(* error in every later step.                                              *)
C7_TerminalStatesImmutable ==
    [][\A t \in TaskIds :
          /\ tasks'[t].status # tasks[t].status =>
                <<tasks[t].status, tasks'[t].status>> \in LegalTransitions
          /\ tasks[t].status \in {"completed", "failed", "cancelled"} =>
                /\ tasks'[t].status = tasks[t].status
                /\ tasks'[t].result = tasks[t].result
                /\ tasks'[t].error = tasks[t].error]_vars

FailedExecution(t) ==
    /\ executions[t].pc # "none"
    /\ executions'[t].pc = "none"
    /\ tasks'[t].status # "completed"

(* C8: a failed execution of a task that can retry adds one to retry_count, *)
(* clears the agent, sets Pending and appends the task to the bucket of its *)
(* priority; one that cannot retry leaves the task Failed and unqueued;    *)
(* retry_count never exceeds max_retries and a Failed task runs no more.   *)
C8_RetryPolicy ==
    /\ [](\A t \in TaskIds : tasks[t].retry_count <= tasks[t].max_retries)
    /\ [][\A t \in TaskIds :
            /\ FailedExecution(t) =>
                 IF tasks[t].retry_count < tasks[t].max_retries
                 THEN /\ tasks'[t].retry_count = tasks[t].retry_count + 1
                      /\ tasks'[t].assigned_agent = NoneA
                      /\ tasks'[t].status = "pending"
                      /\ queues'[tasks[t].priority] = Append(queues[tasks[t].priority], t)
                      /\ \A q \in TaskPriority \ {tasks[t].priority} : queues'[q] = queues[q]
                 ELSE /\ tasks'[t].status = "failed"
                      /\ tasks'[t].retry_count = tasks[t].retry_count
                      /\ queues' = queues
            /\ tasks[t].status = "failed" => tasks'[t].status = "failed"]_vars

(* a task failed for good after a retry while another task was queued       *)
C8_Witness ==
    \E t, u \in TaskIds :
        /\ tasks[t].status = "failed"
        /\ tasks[t].retry_count = tasks[t].max_retries
        /\ tasks[t].retry_count > 0
        /\ u # t
        /\ InQueues(St, u)

Quiescent ==
    /\ \A t \in TaskIds : executions[t].pc = "none"
    /\ schedule_pending_tasks(St).S = St
    /\ \A stale \in SUBSET AgentIds : perform_health_checks(St, stale) = St

(* C9: under the background loops alone, a task with max_retries = 2 whose  *)
(* first two attempts fail and whose third succeeds ends Completed with     *)
(* retry_count = 2: once the loops have nothing left to do (no execution   *)
(* is in flight, a scheduling pass and a health check change nothing),     *)
(* every such task is Completed with retry_count = 2.                      *)
C9_RetriedTaskCompletes ==
    Quiescent =>
        \A t \in TaskIds :
            ( /\ tasks[t].status # "none"
              /\ tasks[t].max_retries = 2
              /\ plan[t] = 2 )
            => (tasks[t].status = "completed" /\ tasks[t].retry_count = 2)

(* C10: allocate_resources succeeds exactly when every requirement fits     *)
(* into total - allocated; then every amount is added to its type and the   *)
(* list is recorded under the task id; otherwise nothing changes.  With    *)
(* cpu total 100: 60 fits into 100 free, 50 does not fit into 40 free.     *)
C10_AllocateAllOrNothing ==
    [][last'.op = "allocate_resources" =>
         LET t == last'.task
             reqs == last'.reqs
             fits == \A i \in 1..Len(reqs) :
                        available_resources[reqs[i].resource_type]
                          - allocated_resources[reqs[i].resource_type] >= reqs[i].amount
         IN /\ last'.ret <=> fits
            /\ fits => /\ \A r \in ResourceKeys :
                             allocated_resources'[r] = allocated_resources[r] + AmountOf(reqs, r)
                       /\ resource_reservations'[t] = reqs
                       /\ \A u \in TaskIds \ {t} :
                             resource_reservations'[u] = resource_reservations[u]
            /\ ~fits => /\ allocated_resources' = allocated_resources
                        /\ resource_reservations' = resource_reservations
            /\ (reqs = <<Req("cpu", 60)>> /\ allocated_resources["cpu"] = 0) => last'.ret
            /\ (reqs = <<Req("cpu", 50)>> /\ allocated_resources["cpu"] = 60) => ~last'.ret
            /\ (reqs = <<Req("cpu", 50)>> /\ allocated_resources["cpu"] = 0) => last'.ret]_vars

(* task 1 holds cpu 60 and the allocation of cpu 50 for task 2 was refused  *)
C10_Witness ==
    /\ last.op = "allocate_resources"
    /\ last.task = 2
    /\ last.reqs = <<Req("cpu", 50)>>
    /\ ~last.ret
    /\ resource_reservations[1] = <<Req("cpu", 60)>>
    /\ allocated_resources["cpu"] = 60

(* C11: release_resources(task_id) subtracts exactly the recorded           *)
(* reservation from the allocated counters and deletes the reservation;    *)
(* for a task id without a reservation (unknown or already released) it    *)
(* changes nothing, so releasing twice equals releasing once.              *)
C11_ReleaseIdempotent ==
    /\ [](\A t \in TaskIds :
            release_resources(release_resources(St, t), t) = release_resources(St, t))
    /\ [][last'.op = "release_resources" =>
            LET t == last'.task
                held == resource_reservations[t]
            IN /\ resource_reservations'[t] = NoReservation
               /\ \A u \in TaskIds \ {t} :
                      resource_reservations'[u] = resource_reservations[u]
               /\ IF held = NoReservation
                  THEN allocated_resources' = allocated_resources
                  ELSE \A r \in ResourceKeys :
                          allocated_resources'[r] = allocated_resources[r] - AmountOf(held, r)]_vars

(* a release for a task id that holds nothing, while another task's         *)
(* reservation is still counted                                            *)
C11_Witness ==
    /\ last.op = "release_resources"
    /\ ~last.ret
    /\ allocated_resources["cpu"] = 60
    /\ \E u \in TaskIds : resource_reservations[u] = <<Req("cpu", 60)>>

(* an execution of task t ends in this step *)
ExecutionEnds(t) ==
    /\ executions[t].pc = "running"
    /\ executions'[t].pc = "none"

(* C12: when a task's execution ends its reservation is released, its       *)
(* agent's load goes down by the step added at assignment, and the agent   *)
(* becomes Idle unless it is in Error or Paused: an agent paused while its  *)
(* task ran is still Paused after the task completes.                      *)
C12_EndOfExecutionRestoresAgent ==
    [][\A t \in TaskIds : ExecutionEnds(t) =>
          LET a == executions[t].agent
          IN /\ resource_reservations'[t] = NoReservation
             /\ agents'[a].current_load = Max(0, agents[a].current_load - 1)
             /\ IF tasks'[t].status = "completed"
                THEN agents'[a].status =
                        IF agents[a].status \in {"error", "paused"}
                        THEN agents[a].status ELSE "idle"
                ELSE agents'[a].status \in {"error", "paused", "idle"}]_vars

(* C13: cancelling a task that is Assigned or Running marks it Cancelled    *)
(* and releases its resources and its agent's load at once; afterwards the  *)
(* task stays Cancelled with its result and error untouched, and the end   *)
(* of its still-running execution releases nothing a second time.          *)
C13_CancelIsFinal ==
    [][\A t \in TaskIds :
          /\ (last'.op = "cancel_task" /\ last'.task = t /\ last'.ret) =>
                /\ tasks'[t].status = "cancelled"
                /\ resource_reservations'[t] = NoReservation
                /\ agents'[tasks[t].assigned_agent].current_load
                      = Max(0, agents[tasks[t].assigned_agent].current_load - 1)
          /\ tasks[t].status = "cancelled" =>
                /\ tasks'[t].status = "cancelled"
                /\ tasks'[t].result = tasks[t].result
                /\ tasks'[t].error = tasks[t].error
                /\ ExecutionEnds(t) =>
                      /\ allocated_resources' = allocated_resources
                      /\ agents'[executions[t].agent].current_load
                            = agents[executions[t].agent].current_load]_vars

WorkflowTransitions ==
    { <<"none", "created">>, <<"created", "running">>, <<"running", "paused">>,
      <<"paused", "running">>, <<"running", "completed">>, <<"running", "failed">>,
      <<"running", "cancelled">>, <<"paused", "cancelled">>, <<"created", "cancelled">> }

WorkflowStatus == {"none", "created", "running", "paused", "completed", "failed", "cancelled"}

Compose(R, Q) ==
    {p \in WorkflowStatus \X WorkflowStatus :
        \E b \in WorkflowStatus : <<p[1], b>> \in R /\ <<b, p[2]>> \in Q}

(* the status changes made of one or more legal transitions: a method may   *)
(* make several assignments before anything else can observe the status    *)
WorkflowPaths ==
    LET R2 == WorkflowTransitions \cup Compose(WorkflowTransitions, WorkflowTransitions)
        R4 == R2 \cup Compose(R2, R2)
    IN R4 \cup Compose(R4, R4)

(* C14: a workflow's status moves only along Created -> Running ->          *)
(* (Paused <-> Running) -> {Completed, Failed, Cancelled} (cancelling a    *)
(* Created or Paused workflow included); a Completed, Failed or Cancelled  *)
(* workflow never changes status again.                                    *)
C14_WorkflowStateMachine ==
    [][/\ workflow'.status # workflow.status =>
             <<workflow.status, workflow'.status>> \in WorkflowPaths
       /\ execution'.status # execution.status =>
             <<execution.status, execution'.status>> \in WorkflowPaths]_vars

(* a driver returns in this step (it is not torn down by a cancellation) *)
DriverEnds ==
    \/ \E d \in DriverIds : drivers[d].pc \in {"start", "polling"} /\ drivers'[d].pc = "done"
    \/ execution_driver.pc # "done" /\ execution_driver'.pc = "done"

StepsFinished(steps) ==
    \A i \in 1..Len(steps) : steps[i].status \in {"completed", "skipped"}

(* C15: whenever a workflow's status is Completed every one of its steps is *)
(* Completed or Skipped, and a driver that ends with every step Completed  *)
(* or Skipped leaves the status Completed.                                 *)
C15_CompletedMeansAllStepsDone ==
    /\ [](/\ workflow.status = "completed" => StepsFinished(workflow.steps)
          /\ execution.status = "completed" => StepsFinished(execution.steps))
    /\ [][DriverEnds =>
            /\ (workflow.status # "none" /\ StepsFinished(workflow'.steps))
                  => workflow'.status = "completed"
            /\ (execution.status # "none" /\ StepsFinished(execution'.steps))
                  => execution'.status = "completed"]_vars

(* no step can proceed and the workflow is incomplete *)
WorkflowDeadlock(w) ==
    /\ w.status # "none"
    /\ ~is_complete(w)
    /\ ~has_failed(w)
    /\ get_next_pending_step(w) = 0
    /\ \A i \in StepsOf(w) : w.steps[i].status # "running"

ExecutionDeadlock(e) ==
    /\ e.status # "none"
    /\ ~StepsFinished(e.steps)
    /\ get_next_step(e) = 0
    /\ e.current_step = 0
    /\ e.failed_steps = <<>>

(* C16: a driver that finds no eligible step while the workflow is          *)
(* incomplete (a circular dependency, for one) ends at once, leaving the   *)
(* workflow Failed with the deadlock error and never Completed.            *)
C16_DeadlockFailsFast ==
    [][last'.op = "driver" =>
          /\ WorkflowDeadlock(workflow') =>
                /\ \A d \in DriverIds : drivers'[d] # drivers[d] => drivers'[d].pc = "done"
                /\ workflow'.status = "failed"
                /\ workflow'.error = "deadlock"
          /\ ExecutionDeadlock(execution') =>
                /\ execution_driver'.pc = "done"
                /\ execution'.status = "failed"]_vars

(* C17: a step is Running or Completed only in states where every step of   *)
(* its dependency list is Completed, so the steps of a chain A -> B -> C    *)
(* start and complete in the order A, B, C.                                *)
C17_StepsRunAfterDependencies ==
    /\ \A i \in StepsOf(workflow) :
          workflow.steps[i].status \in {"running", "completed"} =>
              \A dep_id \in workflow.steps[i].dependencies :
                  /\ dep_id \in StepsOf(workflow)
                  /\ workflow.steps[dep_id].status = "completed"
    /\ \A i \in 1..Len(execution.steps) :
          execution.steps[i].status \in {"in_progress", "completed"} =>
              \A dep_id \in execution.steps[i].dependencies :
                  /\ dep_id \in 1..Len(execution.steps)
                  /\ execution.steps[dep_id].status = "completed"

(* the last step of the chain is running after the first two completed *)
C17_Witness ==
    /\ Len(workflow.steps) = 3
    /\ workflow.steps[3].status = "running"
    /\ workflow.steps[3].dependencies = {2}
    /\ workflow.steps[2].dependencies = {1}
    /\ workflow.steps[1].status = "completed"
    /\ workflow.steps[2].status = "completed"

(* the steps that step j waits for, directly or through other steps *)
RECURSIVE Ancestors(_, _, _)
Ancestors(w, js, n) ==
    IF n = 0 THEN js
    ELSE Ancestors(w, js \cup UNION {w.steps[j].dependencies \cap StepsOf(w) : j \in js}, n - 1)

DependsOn(w, j, i) ==
    i \in Ancestors(w, w.steps[j].dependencies \cap StepsOf(w), Len(w.steps))

(* a step that may fail has failed, every step not waiting for it completed *)
ToleratedFailure(w) ==
    \E i \in StepsOf(w) :
        /\ w.steps[i].status = "failed"
        /\ w.steps[i].allow_failure
        /\ \A j \in StepsOf(w) \ {i} :
              ~DependsOn(w, j, i) => w.steps[j].status = "completed"

(* C18: a Failed step with allow_failure does not fail the workflow: when   *)
(* every step that does not depend on it is Completed the workflow is not   *)
(* Failed; a step without allow_failure that is marked Failed makes the     *)
(* workflow Failed.                                                         *)
C18_AllowedFailureDoesNotFailWorkflow ==
    /\ [](ToleratedFailure(workflow) => workflow.status # "failed")
    /\ [][\A i \in StepsOf(workflow) :
            (/\ workflow'.steps = [workflow.steps EXCEPT ![i].status = "failed"]
             /\ workflow.steps[i].status # "failed"
             /\ ~workflow.steps[i].allow_failure) => workflow'.status = "failed"]_vars

(* a driver that polls step i finds its task failed or cancelled and acts *)
PolledAfterFailure(i) ==
    /\ last'.op = "driver"
    /\ \E d \in DriverIds : drivers[d].pc = "polling" /\ drivers[d].step = i
    /\ step_tasks[i] \in {"failed", "cancelled"}
    /\ workflow'.steps[i] # workflow.steps[i]

(* a new task is submitted for step i *)
Dispatched(i) == step_tasks[i] # "active" /\ step_tasks'[i] = "active"

StepAdvances(steps, steps2, started) ==
    \E i \in 1..Len(steps) :
        /\ i <= Len(steps2)
        /\ steps2[i].status \in {started, "completed"}
        /\ steps2[i].status # steps[i].status

(* pause_workflow of the step-based manager returned True *)
PauseHalts_Workflow ==
    /\ (last'.op = "pause_workflow" /\ last'.ret /\ workflow.status = "running") =>
           /\ workflow'.status = "paused"
           /\ \A i \in StepsOf(workflow) :
                 workflow.steps[i].status = "running" => step_tasks'[i] # "active"
    /\ (workflow.status = "paused" /\ last'.op \notin {"resume_workflow", "cancel_workflow"}) =>
           /\ ~StepAdvances(workflow.steps, workflow'.steps, "running")
           /\ workflow'.status \notin {"completed", "failed"}

(* pause_workflow of the plan runner has just set the execution Paused *)
PauseHalts_Execution ==
    (/\ execution.status = "paused"
     /\ last.op = "pause_workflow"
     /\ last'.op \notin {"resume_workflow", "cancel_workflow"}) =>
        /\ ~StepAdvances(execution.steps, execution'.steps, "in_progress")
        /\ execution'.status \notin {"completed", "failed"}

(* C20: after pause_workflow succeeds on a Running workflow the task of the *)
(* step in flight is cancelled and the driver is halted: while the status   *)
(* is Paused no step changes to Running or Completed and the status does    *)
(* not change to Completed or Failed, until resume_workflow or              *)
(* cancel_workflow is called.                                               *)
C20_PauseHaltsDriver == [][PauseHalts_Workflow /\ PauseHalts_Execution]_vars

(* the driver loops that have not returned and were not cancelled *)
LiveDrivers == {d \in DriverIds : drivers[d].pc \in {"start", "polling"}}

(* resume_workflow returned True: Running again, the step states untouched *)
ResumeRestarts ==
    /\ (last'.op = "resume_workflow" /\ last'.ret /\ workflow.status = "paused") =>
           /\ workflow'.status = "running"
           /\ workflow'.steps = workflow.steps
    /\ (last'.op = "resume_workflow" /\ last'.ret /\ execution.status = "paused") =>
           /\ execution'.status = "running"
           /\ execution'.steps = execution.steps

(* a Completed step stays Completed and no task is submitted for it again *)
CompletedNotRerun ==
    /\ \A i \in StepsOf(workflow) :
          workflow.steps[i].status = "completed" =>
              workflow'.steps[i].status = "completed" /\ ~Dispatched(i)
    /\ \A i \in 1..Len(execution.steps) :
          execution.steps[i].status = "completed" => execution'.steps[i].status = "completed"

(* every driver has ended, every task submitted for a step succeeded and   *)
(* no step was cancelled                                                   *)
AllTasksSucceeded ==
    /\ workflow.status \notin {"none", "created", "cancelled"}
    /\ LiveDrivers = {}
    /\ \A i \in StepsOf(workflow) :
          /\ step_tasks[i] = "completed"
          /\ workflow.steps[i].retry_count = 0
          /\ workflow.steps[i].status # "cancelled"

(* C21: resume_workflow on a Paused workflow sets it Running and restarts   *)
(* the driver from the same step states; Completed steps are not executed   *)
(* again; at any time at most one driver loop drives the workflow; and a    *)
(* workflow whose step tasks all succeed ends Completed.                    *)
C21_ResumeRestartsOneDriver ==
    /\ [](Cardinality(LiveDrivers) <= 1)
    /\ [](AllTasksSucceeded => workflow.status = "completed")
    /\ [][ResumeRestarts /\ CompletedNotRerun]_vars

(* C22: cancel_workflow called while a step is Running leaves every         *)
(* Completed step Completed, cancels the task of each Running step and sets *)
(* that step to Cancelled, and sets the workflow status to Cancelled.       *)
C22_CancelWhileRunning ==
    [][(/\ last'.op = "cancel_workflow"
        /\ last'.ret
        /\ \E i \in StepsOf(workflow) : workflow.steps[i].status = "running") =>
          /\ workflow'.status = "cancelled"
          /\ \A i \in StepsOf(workflow) :
                /\ workflow.steps[i].status = "completed" =>
                      workflow'.steps[i] = workflow.steps[i]
                /\ workflow.steps[i].status = "running" =>
                      /\ workflow'.steps[i].status = "cancelled"
                      /\ step_tasks[i] = "active" => step_tasks'[i] = "cancelled"
                      /\ step_tasks[i] # "active" => step_tasks'[i] = step_tasks[i]]_vars

(* steps [analyze, train(deps = [analyze])] cancelled while train is Running *)
C22_Witness ==
    /\ last.op = "cancel_workflow"
    /\ last.ret
    /\ Len(workflow.steps) = 2
    /\ workflow.steps[2].dependencies = {1}
    /\ workflow.steps[1].status = "completed"
    /\ workflow.steps[2].status = "cancelled"
    /\ step_tasks[2] = "cancelled"
    /\ workflow.status = "cancelled"

(* cancel_workflow returned: the steps that were not terminal are Cancelled *)
CancelMarksSteps ==
    /\ (last'.op = "cancel_workflow" /\ last'.ret /\ workflow.status # "none") =>
           \A i \in StepsOf(workflow) :
               workflow.steps[i].status \in {"pending", "running"} =>
                   workflow'.steps[i].status = "cancelled"
    /\ (last'.op = "cancel_workflow" /\ last'.ret /\ execution.status # "none") =>
           \A i \in 1..Len(execution.steps) :
               execution.steps[i].status \in {"pending", "in_progress"} =>
                   execution'.steps[i].status = "cancelled"

(* a Cancelled workflow stays Cancelled, no step starts or completes *)
CancelHalts ==
    /\ workflow.status = "cancelled" =>
           /\ workflow'.status = "cancelled"
           /\ ~StepAdvances(workflow.steps, workflow'.steps, "running")
    /\ execution.status = "cancelled" =>
           /\ execution'.status = "cancelled"
           /\ ~StepAdvances(execution.steps, execution'.steps, "in_progress")

(* C23: after cancel_workflow succeeds every step that was Pending or       *)
(* Running is Cancelled and the workflow halts for good: no step is started *)
(* or completed afterwards and the status stays Cancelled, whatever driver  *)
(* loops were active.                                                       *)
C23_CancelHaltsPermanently == [][CancelMarksSteps /\ CancelHalts]_vars

(* with auto-approve off a step starts only after approve_step(.., True) *)
StartsOnlyApproved ==
    \A i \in 1..Len(execution.steps) :
        (/\ ~execution.auto_approve
         /\ execution.steps[i].status = "pending"
         /\ execution'.steps[i].status # "pending") => execution.user_approvals[i]

(* the driver that finds an eligible step without approval pauses the      *)
(* workflow and waits                                                      *)
GatePauses ==
    (execution_driver.pc # "waiting_approval" /\ execution_driver'.pc = "waiting_approval") =>
        /\ execution'.status = "paused"
        /\ ~execution'.auto_approve
        /\ ~execution'.user_approvals[execution_driver'.step]
        /\ execution'.steps[execution_driver'.step].status = "pending"

(* a workflow paused at the gate is Running again only after the approval *)
RunningOnlyApproved ==
    (/\ execution_driver.pc = "waiting_approval"
     /\ execution.status = "paused"
     /\ execution'.status = "running") => execution.user_approvals[execution_driver.step]

(* C24: with auto-approve off no step is executed before approve_step with  *)
(* approved = true was called for it: when such a step becomes eligible the *)
(* workflow becomes Paused and the driver waits, and the workflow is        *)
(* Running again only once the approval has been given.                     *)
C24_ApprovalGate == [][StartsOnlyApproved /\ GatePauses /\ RunningOnlyApproved]_vars

(* completed-or-skipped steps over all steps, as a percentage *)
StepProgress(steps) ==
    Ratio(Cardinality({i \in 1..Len(steps) : steps[i].status \in {"completed", "skipped"}}) * 100,
          Len(steps))

(* C25: the progress a workflow reports always equals the number of its     *)
(* steps that are Completed or Skipped over the number of its steps, as a   *)
(* percentage; a step in flight adds nothing.                               *)
C25_ProgressFromStepStatuses ==
    /\ workflow.status # "none" => RatioEq(workflow.progress, StepProgress(workflow.steps))
    /\ execution.status # "none" =>
          RatioEq(Execution_calculate_progress(execution), StepProgress(execution.steps))

(* the held tasks whose dependencies are all in the set done, in the order *)
(* in which they were enqueued                                            *)
NowReady(done) ==
    SelectSeq(waiting_dependencies, LAMBDA w : tasks[w].dependencies \subseteq done)

(* C26: mark_task_completed(t) adds t to the completed set and moves every  *)
(* held task whose dependencies are now all completed to the end of the     *)
(* bucket of its own priority, Pending, in the original enqueue order; held *)
(* tasks with an unmet dependency stay held, and a task without             *)
(* dependencies is never held.                                              *)
C26_MarkCompletedReleasesDependents ==
    /\ [](\A i \in 1..Len(waiting_dependencies) :
            tasks[waiting_dependencies[i]].dependencies # {})
    /\ [][last'.op = "mark_task_completed" =>
            LET done == completed_tasks \cup {last'.task}
                ready == NowReady(done)
            IN /\ completed_tasks' = done
               /\ \A p \in TaskPriority :
                     queues'[p] = queues[p] \o SelectSeq(ready, LAMBDA w : tasks[w].priority = p)
               /\ waiting_dependencies' =
                     SelectSeq(waiting_dependencies,
                               LAMBDA w : ~(tasks[w].dependencies \subseteq done))
               /\ \A u \in TaskIds :
                     tasks'[u] = IF u \in Range(ready)
                                 THEN [tasks[u] EXCEPT !.status = "pending"]
                                 ELSE tasks[u]]_vars

(* two tasks waiting for the same task were released into one bucket, in   *)
(* the order they were enqueued                                            *)
C26_Witness ==
    /\ last.op = "mark_task_completed"
    /\ \E p \in TaskPriority :
          /\ Len(queues[p]) >= 2
          /\ LET a == queues[p][Len(queues[p]) - 1]
                 b == queues[p][Len(queues[p])]
             IN /\ last.task \in tasks[a].dependencies
                /\ last.task \in tasks[b].dependencies
                /\ a < b
                /\ tasks[a].status = "pending"
                /\ tasks[b].status = "pending"

(* the message a send_message call was given *)
Sent == bus'.messages[bus'.ret.messages[1]]

(* C27: send_message with a recipient set appends the message to exactly    *)
(* that recipient's mailbox and returns True; if the recipient has no       *)
(* mailbox it returns False without raising, and no mailbox is created or   *)
(* changed.                                                                 *)
C27_DirectSend ==
    [][(bus'.ret.op = "send_message" /\ Sent.recipient_id # NoRecipient) =>
          /\ ~bus'.ret.raised
          /\ bus'.keys = bus.keys
          /\ IF Sent.recipient_id \in bus.keys
             THEN /\ bus'.ret.ok
                  /\ bus'.message_queues =
                        [bus.message_queues EXCEPT ![Sent.recipient_id] = Append(@, Sent.id)]
             ELSE /\ ~bus'.ret.ok
                  /\ bus'.message_queues = bus.message_queues]_vars

(* a direct message was delivered after an earlier one to the same         *)
(* recipient had found no mailbox                                          *)
C27_Witness ==
    /\ bus.ret.op = "send_message"
    /\ bus.ret.ok
    /\ LET id == bus.ret.messages[1]
       IN /\ bus.messages[id].recipient_id # NoRecipient
          /\ bus.message_queues[bus.messages[id].recipient_id] # <<>>
          /\ \E j \in MsgIds :
                /\ j < id
                /\ bus.messages[j].recipient_id = bus.messages[id].recipient_id
                /\ bus.messages[j].expires_at = NoExpiry
                /\ \A a \in BusIds : /\ j \notin Range(bus.message_queues[a])
                                     /\ j \notin bus.returned[a]

(* C28: a message sent with no recipient is appended, one copy each, to the *)
(* mailbox of every agent subscribed to its message type except the sender, *)
(* and to no other mailbox.                                                 *)
C28_BroadcastOneCopyEach ==
    [][(bus'.ret.op = "send_message" /\ Sent.recipient_id = NoRecipient) =>
          \A a \in BusIds :
              bus'.message_queues[a] =
                  IF a \in Range(bus.subscribers[Sent.message_type]) /\ a # Sent.sender_id
                  THEN Append(bus.message_queues[a], Sent.id)
                  ELSE bus.message_queues[a]]_vars

(* the mailbox get_messages read, before the call *)
Mailbox == bus.message_queues[bus'.ret.agent]

(* the messages a get_messages call took off the mailbox *)
Taken == SubSeq(Mailbox, 1, Min(bus'.ret.limit, Len(Mailbox)))

(* C29: get_messages(agent, limit) removes messages from the front of that  *)
(* agent's mailbox in FIFO order and returns at most limit of them, never   *)
(* one whose expiry has passed; a message returned once is never returned   *)
(* by a later get_messages on the same mailbox, and the mailboxes of other  *)
(* agents are unchanged.                                                    *)
C29_GetMessages ==
    [][bus'.ret.op = "get_messages" =>
          /\ bus'.message_queues[bus'.ret.agent] = SubSeq(Mailbox, Len(Taken) + 1, Len(Mailbox))
          /\ bus'.ret.messages = SelectSeq(Taken, LAMBDA id : ~is_expired(bus, id))
          /\ Len(bus'.ret.messages) <= bus'.ret.limit
          /\ \A i \in 1..Len(bus'.ret.messages) :
                /\ bus'.ret.messages[i] \notin bus.returned[bus'.ret.agent]
                /\ \A j \in 1..Len(bus'.ret.messages) :
                      bus'.ret.messages[i] = bus'.ret.messages[j] => i = j
          /\ \A a \in BusIds \ {bus'.ret.agent} :
                bus'.message_queues[a] = bus.message_queues[a]
          /\ bus'.keys = bus.keys]_vars

(* the messages created by the step *)
NewMessages == {id \in MsgIds : bus.messages[id] = NoMessage /\ bus'.messages[id] # NoMessage}

(* the request with this correlation id is in the retained history *)
RequestRetained(correlation_id) ==
    \E i \in 1..Len(bus.message_history) :
        /\ bus.message_history[i] = correlation_id
        /\ bus.messages[correlation_id].correlation_id = correlation_id
        /\ bus.messages[correlation_id].message_type # "task_response"

(* the mailboxes after message id was delivered to agent a, if a has one *)
Delivered(a, id) ==
    IF a \in bus.keys
    THEN [bus.message_queues EXCEPT ![a] = Append(@, id)]
    ELSE bus.message_queues

(* send_request: a fresh correlation id, an expiry, pending only on success *)
RequestRecorded ==
    bus'.ret.op = "send_request" =>
        \E id \in NewMessages :
            /\ NewMessages = {id}
            /\ \A j \in MsgIds : bus.messages[j].correlation_id # id
            /\ bus'.messages[id].correlation_id = id
            /\ bus'.messages[id].expires_at # NoExpiry
            /\ bus'.message_queues = Delivered(bus'.messages[id].recipient_id, id)
            /\ IF bus'.messages[id].recipient_id \in bus.keys
               THEN /\ ~bus'.ret.raised
                    /\ bus'.ret.correlation_id = id
                    /\ bus'.pending_responses = bus.pending_responses \cup {id}
               ELSE /\ bus'.ret.raised
                    /\ bus'.pending_responses = bus.pending_responses

(* send_response for a retained request: one TaskResponse with the same    *)
(* correlation id, addressed to the sender of the request                  *)
ResponseRouted ==
    (bus'.ret.op = "send_response" /\ RequestRetained(bus'.ret.correlation_id)) =>
        \E id \in NewMessages :
            /\ NewMessages = {id}
            /\ bus'.messages[id].message_type = "task_response"
            /\ bus'.messages[id].correlation_id = bus'.ret.correlation_id
            /\ bus'.messages[id].sender_id = bus'.ret.agent
            /\ bus'.messages[id].recipient_id = bus.messages[bus'.ret.correlation_id].sender_id
            /\ bus'.message_queues = Delivered(bus'.messages[id].recipient_id, id)
            /\ bus'.pending_responses = bus.pending_responses \ {bus'.ret.correlation_id}

(* send_response without a retained request does nothing *)
ResponseDropped ==
    (bus'.ret.op = "send_response" /\ ~RequestRetained(bus'.ret.correlation_id)) =>
        /\ NewMessages = {}
        /\ bus'.message_queues = bus.message_queues
        /\ bus'.pending_responses = bus.pending_responses

(* C30: send_request sends the request with a fresh correlation id and an   *)
(* expiry and records it as pending only if the send succeeded;             *)
(* send_response for that correlation id routes one TaskResponse with the   *)
(* same correlation id to the sender of the original request and removes    *)
(* the pending entry; for a correlation id with no request in the retained  *)
(* history, send_response sends nothing and leaves the pending set          *)
(* unchanged.                                                               *)
C30_RequestResponse == [][RequestRecorded /\ ResponseRouted /\ ResponseDropped]_vars

(* the pending requests whose timeout has elapsed *)
ExpiredPending == {correlation_id \in bus.pending_responses : is_expired(bus, correlation_id)}

(* get_pending_responses reports every unanswered request whose timeout    *)
(* has elapsed                                                             *)
ExpiredReported ==
    bus'.ret.op = "get_pending_responses" => ExpiredPending \subseteq bus'.ret.expired

(* cleanup removes exactly what has expired *)
CleanupExact ==
    bus'.ret.op = "cleanup_expired_messages" =>
        /\ bus'.pending_responses = bus.pending_responses \ ExpiredPending
        /\ \A a \in BusIds :
              bus'.message_queues[a] =
                  SelectSeq(bus.message_queues[a], LAMBDA id : ~is_expired(bus, id))
        /\ bus'.keys = bus.keys

(* C31: a request sent by send_request with timeout T and never answered    *)
(* is, once T has elapsed, reported by get_pending_responses and removed    *)
(* from the pending set by cleanup_expired_messages; cleanup removes        *)
(* exactly the expired pending requests and the expired mailbox entries and *)
(* leaves every unexpired request and message in place and in order.        *)
C31_ExpiredRequests == [][ExpiredReported /\ CleanupExact]_vars

(* C32: no public operation of the core raises an exception for an          *)
(* expected failure mode (unknown recipient of a request, unknown workflow  *)
(* id, workflow not in Created state, unknown workflow in approve_step,     *)
(* insufficient resources): each such call returns a failure value.         *)
C32_ExpectedFailuresDoNotRaise ==
    [][/\ ~last'.raised
       /\ ~bus'.ret.raised
       /\ (/\ last'.op = "allocate_resources"
           /\ UNCHANGED <<bus, wfvars>>
           /\ ~can_allocate(St, last'.reqs)) =>
              /\ ~last'.ret
              /\ allocated_resources' = allocated_resources
              /\ resource_reservations' = resource_reservations]_vars

(* C33: remove_agent is rejected whenever the agent's status is Busy: it    *)
(* returns false and the agent registry is unchanged; removal of a          *)
(* non-Busy registered agent succeeds, and removal of an unknown id         *)
(* returns false.                                                           *)
C33_RemoveAgent ==
    [][last'.op = "remove_agent" =>
          LET a == last'.agent
          IN IF agents[a].registered /\ agents[a].status # "busy"
             THEN /\ last'.ret
                  /\ ~agents'[a].registered
                  /\ \A b \in AgentIds \ {a} : agents'[b] = agents[b]
             ELSE /\ ~last'.ret
                  /\ agents' = agents]_vars

(* a busy agent was refused while the other agent had been removed *)
C33_Witness ==
    /\ last.op = "remove_agent"
    /\ ~last.ret
    /\ agents[last.agent].registered
    /\ agents[last.agent].status = "busy"
    /\ \E b \in AgentIds : ~agents[b].registered

(* C34: for every resource type, the allocated amount never exceeds the     *)
(* type's total capacity and never becomes negative, after any sequence of  *)
(* allocate_resources and release_resources calls with any requirement      *)
(* lists.                                                                   *)
C34_AllocatedWithinCapacity ==
    \A r \in ResourceKeys :
        /\ allocated_resources[r] >= 0
        /\ allocated_resources[r] <= available_resources[r]

(* the tasks assigned to agent a that are Assigned or Running *)
ActiveTasks(a) ==
    {t \in TaskIds : /\ tasks[t].status \in {"assigned", "running"}
                     /\ tasks[t].assigned_agent = a}

(* C35: at any time at most one task with status Assigned or Running is     *)
(* assigned to a given agent, and that agent is then Busy or Paused, under  *)
(* every interleaving of the scheduler, the task executions, reset_agent    *)
(* and pause_agent/resume_agent.                                            *)
C35_OneActiveTaskPerAgent ==
    \A a \in AgentIds :
        /\ Cardinality(ActiveTasks(a)) <= 1
        /\ ActiveTasks(a) # {} => agents[a].status \in {"busy", "paused"}

(* the StatusUpdate messages that handling a StatusUpdate has broadcast *)
Derived(B) ==
    {id \in MsgIds : /\ B.messages[id].message_type = "status_update"
                     /\ B.messages[id].sender_id = "coordinator"}

(* no mailbox of an agent the loop services holds a message *)
MailboxesEmpty(B) ==
    \A i \in 1..Len(DefaultAgents) : B.message_queues[DefaultAgents[i]] = <<>>

(* a pass of the loop in which every message read is such a broadcast *)
HandlesDerived ==
    /\ bus'.ret.op = "message_processing_pass"
    /\ bus' # bus
    /\ Derived(bus) # {}
    /\ QueuedMessages(bus) \subseteq Derived(bus)

(* C36: message processing quiesces: the StatusUpdate messages that the     *)
(* handling of a StatusUpdate broadcasts end the chain; when the loop       *)
(* handles them no further StatusUpdate is created and the mailboxes of     *)
(* the agents are empty.                                                    *)
C36_MessageProcessingQuiesces ==
    [][HandlesDerived =>
          /\ \A id \in NewMessages : bus'.messages[id].message_type # "status_update"
          /\ MailboxesEmpty(bus')]_vars

(* how often task t occurs in a sequence of task ids *)
Occurrences(queue, t) == Cardinality({i \in 1..Len(queue) : queue[i] = t})

(* every Pending task is in the bucket of its priority *)
PendingAreQueued ==
    \A t \in TaskIds :
        tasks[t].status = "pending" => Occurrences(queues[tasks[t].priority], t) = 1

(* every WaitingDependencies task is in the waiting set *)
WaitingAreHeld ==
    \A t \in TaskIds :
        tasks[t].status = "waiting_dependencies" => Occurrences(waiting_dependencies, t) = 1

(* what is in a bucket is Pending and of that priority, what is in the     *)
(* waiting set is WaitingDependencies, and nothing is there twice          *)
QueuedArePending ==
    \A t \in TaskIds :
        /\ \A p \in TaskPriority :
              Occurrences(queues[p], t) > 0 =>
                  /\ Occurrences(queues[p], t) = 1
                  /\ tasks[t].status = "pending"
                  /\ tasks[t].priority = p
                  /\ Occurrences(waiting_dependencies, t) = 0
        /\ Occurrences(waiting_dependencies, t) > 0 =>
              /\ Occurrences(waiting_dependencies, t) = 1
              /\ tasks[t].status = "waiting_dependencies"

(* C37: every task with status Pending is present in exactly one priority   *)
(* bucket (the one of its priority), every task with status                 *)
(* WaitingDependencies is in the waiting set, and no task appears in the    *)
(* buckets or the waiting set more than once or with any other status,      *)
(* after any sequence of create_task, scheduling passes, direct assign_task *)
(* calls, executions and retries.                                           *)
C37_QueueRegistryConsistency == PendingAreQueued /\ WaitingAreHeld /\ QueuedArePending

(* C38: if a task fails permanently (its retries are exhausted), every task *)
(* that lists it as a dependency eventually leaves WaitingDependencies:     *)
(* once the background loops have nothing left to do (no execution is in   *)
(* flight, a scheduling pass and a health check change nothing), no task    *)
(* that depends on a Failed task is still WaitingDependencies.              *)
C38_DependentsOfFailedTaskReleased ==
    Quiescent =>
        \A t \in TaskIds :
            (\E d \in tasks[t].dependencies : tasks[d].status = "failed" /\ ~can_retry(tasks[d]))
            => tasks[t].status # "waiting_dependencies"

(* C39: when the message-processing loop handles an ErrorReport of a       *)
(* registered agent whose mailbox the loops service, default recovery      *)
(* finds the heartbeat request answered and reports that the agent         *)
(* responded.                                                              *)
C39_RecoveryHearsServicedAgent ==
    (bus.ret.op = "default_error_recovery" /\ bus.ret.agent \in Range(DefaultAgents))
        => bus.ret.ok

(* a rejection leaves the workflow Cancelled *)
RejectionCancels ==
    ~(execution'.rejected \subseteq execution.rejected) => execution'.status = "cancelled"

(* a step that stands rejected is not started *)
RejectedNotExecuted ==
    \A i \in execution.rejected \cap execution'.rejected :
        execution.steps[i].status = "pending" => execution'.steps[i].status = "pending"

(* while a rejection stands, Cancelled is not replaced by another status *)
RejectionStands ==
    (/\ execution.rejected # {}
     /\ execution'.rejected # {}
     /\ execution.status = "cancelled") => execution'.status = "cancelled"

(* C40: approve_step with approved = false cancels the workflow: the       *)
(* rejected step is never executed, and the status stays Cancelled; the    *)
(* driver does not replace it with Failed or Completed.                    *)
C40_RejectionCancelsForGood ==
    [][RejectionCancels /\ RejectedNotExecuted /\ RejectionStands]_vars
====
